---- MODULE Spec2Model ----
(***************************************************************************)
(* A model of the Linear Arrangement Library: the minimum linear           *)
(* arrangement solvers (Chung's unconstrained algorithm, the projective    *)
(* interval algorithm, the planar algorithm rooted at a centroid) and the  *)
(* undirected graph container.                                             *)
(*                                                                         *)
(* Vertices are 0..n-1.  Every C++ array (std::vector, data_array) is a    *)
(* sequence read with At(s, i) and written with Put(s, i, x), i counted    *)
(* from 0 as in the code.  Chung's code works on 1-based node names        *)
(* (one_node, u, ord[i].second) and converts with -1/+1 at every graph     *)
(* access; the model keeps both conventions where the code does.           *)
(***************************************************************************)
EXTENDS Integers, Sequences, FiniteSets

\* ------------------------------------------------------------------------
\* Bounds of the model
\* ------------------------------------------------------------------------
\* largest number of vertices of the exhaustively enumerated solver inputs
MaxN == 5
\* number of vertices of the ugraph on which add_edge/add_edges are driven
NumNodes == 3
\* largest number of edges the ugraph may hold
MaxEdges == 3

\* ------------------------------------------------------------------------
\* Program constants
\* ------------------------------------------------------------------------
LEFT_ANCHOR == -1
RIGHT_ANCHOR == 1
NO_ANCHOR == 0
LEFT_PLACE == 0
RIGHT_PLACE == 1
ROOT_PLACE == 2
TO_LEFT == 1
TO_RIGHT == 2
\* std::numeric_limits<uint64_t>::max(), the initial value of the running
\* minimum; narrowed to the integer width of the checker, far above any cost
\* the bounded inputs can produce
UINT64_MAX == 2147483647
\* marks "vertex has no parent" in a head array and in a traversal
NoParent == -1

\* ------------------------------------------------------------------------
\* Arrays
\* ------------------------------------------------------------------------
\* s[i] of a C++ container
At(s, i) == s[i + 1]

\* s[i] = x
Put(s, i, x) == [s EXCEPT ![i + 1] = x]

\* a container of n copies of x
Repeat(x, n) == [i \in 1..n |-> x]

\* statements run in order: the value v left by the earlier statement is
\* computed before the statement e that follows it
After(v, e) == IF v = v THEN e ELSE e

\* the sequence a, a+1, ..., b
Range(a, b) == [i \in 1..(b - a + 1) |-> a + i - 1]

SeqToSet(s) == {s[i] : i \in 1..Len(s)}

Abs(x) == IF x < 0 THEN -x ELSE x

SetMin(S) == CHOOSE x \in S : \A y \in S : x <= y

\* position (from 1) of the least element of s, the first one among equals
RECURSIVE IndexOfMin(_, _, _)
IndexOfMin(s, i, best) ==
  IF i > Len(s) THEN best
  ELSE IndexOfMin(s, i + 1, IF s[i] < s[best] THEN i ELSE best)

\* s without its k-th element
RemoveAt(s, k) == SubSeq(s, 1, k - 1) \o SubSeq(s, k + 1, Len(s))

\* ascending sort of a sequence of integers, equal elements kept
\* (sort_1_n_inc on at most 14 elements, bit_sort on an adjacency list)
RECURSIVE SortInc(_)
SortInc(s) ==
  IF Len(s) <= 1 THEN s
  ELSE LET k == IndexOfMin(s, 2, 1)
       IN <<s[k]>> \o SortInc(RemoveAt(s, k))

\* std::is_sorted
IsSortedSeq(s) == \A i \in 1..(Len(s) - 1) : s[i] <= s[i + 1]

\* position (from 1) of the first occurrence of x in s, 0 when absent
RECURSIVE IndexOf(_, _, _)
IndexOf(s, x, i) ==
  IF i > Len(s) THEN 0
  ELSE IF s[i] = x THEN i ELSE IndexOf(s, x, i + 1)

\* std::vector::erase of the first occurrence of x (std::find / lower_bound)
EraseFirst(s, x) ==
  LET k == IndexOf(s, x, 1)
  IN IF k = 0 THEN s ELSE RemoveAt(s, k)

\* every list of a vector of adjacency lists sorted
RECURSIVE SortAll(_)
SortAll(adj) ==
  IF adj = <<>> THEN <<>> ELSE <<SortInc(Head(adj))>> \o SortAll(Tail(adj))

\* ------------------------------------------------------------------------
\* The free tree handed to the solvers: n vertices, one adjacency list per
\* vertex (std::vector, insertion order matters), and the normalised flag
\* ------------------------------------------------------------------------
Nodes(t) == 0..(t.n - 1)

\* graph::normalise: every adjacency list sorted increasingly
normalise(t) == [t EXCEPT !.adj = SortAll(t.adj), !.norm = TRUE]

\* graph::check_normalised: recompute the flag by a linear scan
check_normalised(t) ==
  [t EXCEPT !.norm = \A u \in Nodes(t) : IsSortedSeq(At(t.adj, u))]

\* the last element of an adjacency list is in place (nu[su-2] < nu[su-1])
last_in_order(l) == (Len(l) <= 1) \/ (l[Len(l) - 1] < l[Len(l)])

\* undirected add_edge(u, v, norm, check_norm) of the tree classes:
\* push_back on both lists, then the normalisation policy of
\* directed_graph::add_edge
add_edge(t, u, v, to_norm, check_norm) ==
  LET a1 == Put(t.adj, u, Append(At(t.adj, u), v))
      a2 == Put(a1, v, Append(At(a1, v), u))
      t2 == [t EXCEPT !.adj = a2]
  IN IF t.norm
     THEN IF to_norm
          THEN [t2 EXCEPT !.adj = Put(Put(a2, u, SortInc(At(a2, u))),
                                      v, SortInc(At(a2, v)))]
          ELSE IF check_norm
               THEN [t2 EXCEPT !.norm = last_in_order(At(a2, u)) /\ last_in_order(At(a2, v))]
               ELSE [t2 EXCEPT !.norm = FALSE]
     ELSE IF to_norm THEN normalise(t2)
          ELSE [t2 EXCEPT !.norm = FALSE]

\* remove_single_edge: erase v from u's list and u from v's list
remove_single_edge(adj, u, v) ==
  LET a1 == Put(adj, u, EraseFirst(At(adj, u), v))
  IN Put(a1, v, EraseFirst(At(a1, v), u))

\* undirected remove_edge(u, v, norm, check_norm), then the policy of
\* directed_graph::remove_edge
remove_edge(t, u, v, to_norm, check_norm) ==
  LET t2 == [t EXCEPT !.adj = remove_single_edge(t.adj, u, v)]
  IN IF t.norm THEN t2
     ELSE IF to_norm THEN normalise(t2)
          ELSE IF check_norm THEN check_normalised(t2)
               ELSE [t2 EXCEPT !.norm = FALSE]

\* remove_edges(edges, false, false): every edge is erased, then the policy
\* is applied once
RECURSIVE remove_edges(_, _)
remove_edges(t, edges) ==
  IF edges = <<>> THEN (IF t.norm THEN t ELSE [t EXCEPT !.norm = FALSE])
  ELSE remove_edges(
          [t EXCEPT !.adj = remove_single_edge(t.adj, Head(edges)[1], Head(edges)[2])],
          Tail(edges))

\* add_edges(edges, false, false): every edge is appended, then the flag is
\* dropped (neither norm nor check_norm)
RECURSIVE add_edges(_, _)
add_edges(t, edges) ==
  IF edges = <<>> THEN [t EXCEPT !.norm = FALSE]
  ELSE LET e == Head(edges)
           a1 == Put(t.adj, e[1], Append(At(t.adj, e[1]), e[2]))
           a2 == Put(a1, e[2], Append(At(a1, e[2]), e[1]))
       IN add_edges([t EXCEPT !.adj = a2], Tail(edges))

\* the undirected edges of t, each as <<u, v>> with u < v
Edges(t) == {<<u, v>> \in Nodes(t) \X Nodes(t) : u < v /\ v \in SeqToSet(At(t.adj, u))}

\* detail::get_size_subtrees(t, r, s): s[v] = size of the subtree of T^r
\* rooted at v, for every v of the component of r; the other entries of s are
\* left as they were.  visit returns [s, sum]: the array with the subtrees of
\* the children i, i+1, ... of v filled in and the sum of their sizes.
RECURSIVE size_subtree(_, _, _, _)
RECURSIVE size_subtrees_of_children(_, _, _, _, _)
size_subtree(t, par, v, s) ==
  LET below == size_subtrees_of_children(t, par, v, 1, [s |-> s, sum |-> 0])
  IN Put(below.s, v, 1 + below.sum)

size_subtrees_of_children(t, par, v, i, acc) ==
  IF i > Len(At(t.adj, v)) THEN acc
  ELSE LET w == At(t.adj, v)[i]
       IN IF w = par
          THEN size_subtrees_of_children(t, par, v, i + 1, acc)
          ELSE LET s2 == size_subtree(t, v, w, acc.s)
                   acc2 == [s |-> s2, sum |-> acc.sum + At(s2, w)]
               IN After(acc2, size_subtrees_of_children(t, par, v, i + 1, acc2))

get_size_subtrees(t, r) == size_subtree(t, NoParent, r, Repeat(0, t.n))

\* free_tree::get_num_nodes_component
get_num_nodes_component(t, u) == At(get_size_subtrees(t, u), u)

\* c is centroidal in the component whose subtree sizes (rooted anywhere)
\* are s and whose size is sz: no branch at c holds more than sz/2 vertices
is_centroidal(t, s, sz, c) ==
  \A i \in 1..Len(At(t.adj, c)) :
     LET w == At(t.adj, c)[i]
         branch == IF At(s, w) < At(s, c) THEN At(s, w) ELSE sz - At(s, c)
     IN 2 * branch <= sz

RECURSIVE first_centroidal(_, _, _, _)
first_centroidal(t, s, sz, c) ==
  IF c >= t.n THEN 0
  ELSE IF At(s, c) > 0 /\ is_centroidal(t, s, sz, c) THEN c
  ELSE first_centroidal(t, s, sz, c + 1)

\* detail::retrieve_centroid(t, x).first: the centroidal vertex of the
\* component of x with the smallest index
retrieve_centroid(t, x) ==
  LET s == get_size_subtrees(t, x)
  IN first_centroidal(t, s, At(s, x), 0)

\* position (from 1) of the greatest .first of s, the first one among equals
RECURSIVE IndexOfMaxFirst(_, _, _)
IndexOfMaxFirst(s, i, best) ==
  IF i > Len(s) THEN best
  ELSE IndexOfMaxFirst(s, i + 1, IF s[i].first > s[best].first THEN i ELSE best)

\* detail::counting_sort, non_increasing_t: stable sort of size_node pairs by
\* decreasing .first
RECURSIVE counting_sort_non_increasing(_)
counting_sort_non_increasing(s) ==
  IF Len(s) <= 1 THEN s
  ELSE LET k == IndexOfMaxFirst(s, 2, 1)
       IN <<s[k]>> \o counting_sort_non_increasing(RemoveAt(s, k))

\* ------------------------------------------------------------------------
\* Chung's algorithm (namespace dmin_Chung)
\* ------------------------------------------------------------------------
\* std::optional<uint64_t>
NoValue == [has |-> FALSE, val |-> 0]

Some(x) == [has |-> TRUE, val |-> x]

\* ord[a].first + ... + ord[b].first
RECURSIVE sum_sizes(_, _, _)
sum_sizes(ord, a, b) ==
  IF a > b THEN 0 ELSE At(ord, a).first + sum_sizes(ord, a + 1, b)

\* the while loop of calculate_q with "return q" in the place of "return {}"
\* when q = 0 fails the test
RECURSIVE calculate_q_loop_zero_for_none(_, _, _, _)
calculate_q_loop_zero_for_none(ord, t_0, q, z) ==
  LET tricky_formula == ((t_0 + 2) \div 2) + ((z + 2) \div 2)
      t_2q == At(ord, 2 * q).first
  IN IF t_2q <= tricky_formula
     THEN IF q = 0 THEN Some(q)
          ELSE calculate_q_loop_zero_for_none(ord, t_0, q - 1,
                   z + At(ord, 2 * q).first + At(ord, 2 * q - 1).first)
     ELSE Some(q)

\* the while loop of calculate_q; z is n minus the sizes of T_0..T_2q
RECURSIVE calculate_q_loop(_, _, _, _)
calculate_q_loop(ord, t_0, q, z) ==
  LET tricky_formula == ((t_0 + 2) \div 2) + ((z + 2) \div 2)
      t_2q == At(ord, 2 * q).first
  IN IF t_2q <= tricky_formula
     THEN IF q = 0 THEN NoValue
          ELSE calculate_q_loop(ord, t_0, q - 1,
                   z + At(ord, 2 * q).first + At(ord, 2 * q - 1).first)
     ELSE Some(q)

calculate_q(n, ord) ==
  LET k == Len(ord) - 1
      t_0 == At(ord, 0).first
      q == k \div 2
      sum == sum_sizes(ord, 0, 2 * q)
  IN calculate_q_loop(ord, t_0, q, n - sum)

\* the while loop of calculate_p; y is n minus the sizes of T_0..T_2p+1
RECURSIVE calculate_p_loop(_, _, _, _)
calculate_p_loop(ord, t_0, p, y) ==
  LET tricky_formula == ((t_0 + 2) \div 2) + ((y + 2) \div 2)
      t_2p_plus_1 == At(ord, 2 * p + 1).first
  IN IF t_2p_plus_1 <= tricky_formula
     THEN IF p = 0 THEN NoValue
          ELSE calculate_p_loop(ord, t_0, p - 1,
                   y + At(ord, 2 * p + 1).first + At(ord, 2 * p).first)
     ELSE Some(p)

calculate_p(n, ord) ==
  IF Len(ord) < 2 THEN NoValue
  ELSE LET k == Len(ord) - 1
           t_0 == At(ord, 0).first
           p == (k - 1) \div 2
           sum == sum_sizes(ord, 0, 2 * p + 1)
       IN calculate_p_loop(ord, t_0, p, n - sum)

\* the while loop shared by get_P and get_Q: the indices 0..last other than i
\* are written alternately at the right end and at the left end of v
RECURSIVE fill_alternating(_, _, _, _, _, _, _)
fill_alternating(v, pos, right_pos, left_pos, j, last, i) ==
  IF j > last THEN v
  ELSE IF j = i THEN fill_alternating(v, pos, right_pos, left_pos, j + 1, last, i)
  ELSE IF pos > left_pos
       THEN fill_alternating(Put(v, pos, j), left_pos, right_pos - 1, left_pos,
                             j + 1, last, i)
       ELSE fill_alternating(Put(v, pos, j), right_pos, right_pos, left_pos + 1,
                             j + 1, last, i)

get_P(p, i) ==
  LET size == 2 * p + 1 + 1
  IN fill_alternating(Repeat(0, size), size - 1, size - 1, 1, 0, 2 * p + 1, i)

get_Q(q, i) ==
  LET size == 2 * q + 1
  IN fill_alternating(Repeat(0, size), size - 1, size - 1, 1, 0, 2 * q, i)

\* the loop of get_ordering over the neighbours of u:
\* ord[i].first = s[ui]; ord[i].second = ui + 1
RECURSIVE size_node_pairs(_, _, _)
size_node_pairs(u_neighs, s, i) ==
  IF i > Len(u_neighs) THEN <<>>
  ELSE <<[first |-> At(s, u_neighs[i]), second |-> u_neighs[i] + 1]>>
       \o size_node_pairs(u_neighs, s, i + 1)

\* the children of u in the order of the adjacency list, not sorted
get_ordering_unsorted(t, u) ==
  size_node_pairs(At(t.adj, u - 1), get_size_subtrees(t, u - 1), 1)

\* children of u (1-based name) in T^u, sorted by non-increasing subtree size
get_ordering(t, u) ==
  counting_sort_non_increasing(
     size_node_pairs(At(t.adj, u - 1), get_size_subtrees(t, u - 1), 1))

\* linear_arrangement(n): position of every vertex, zero-initialised.  The
\* solvers only write through assign(u, p) and never read the inverse array,
\* so the arrangement is carried as the array "position of vertex u".
linear_arrangement(n) == Repeat(0, n)

\* linear_arrangement::assign(u, p)
assign(mla, u, p) == IF u < Len(mla) THEN Put(mla, u, p) ELSE mla

\* linear_arrangement::identity(n)
identity(n) == Range(0, n - 1)

\* calculate_mla<root, make_arrangement>(t, one_node, start, end, mla, cost).
\* The tree t and the arrangement mla are passed by reference: the operator
\* returns the three values the call leaves behind, [t, mla, cost].
RECURSIVE calculate_mla(_, _, _, _, _, _, _)
RECURSIVE place_from_start(_, _, _, _, _, _, _)
RECURSIVE place_from_end(_, _, _, _, _, _, _)
RECURSIVE loop_Q(_, _, _)
RECURSIVE loop_P(_, _, _)

\* The local variables of one round of the "for i" loops are the record
\* st = [t, arr_aux, start_aux, end_aux, c_i].  What a call
\* calculate_mla(t, ..., arr_aux, c) followed by c_i += c leaves in them, with
\* the new values of start_aux and end_aux
after_call(st, res, start_aux, end_aux) ==
  [t |-> res.t, arr_aux |-> res.mla, c_i |-> st.c_i + res.cost,
   start_aux |-> start_aux, end_aux |-> end_aux]

\* calculate_mla<anchor>(t, r, start_aux, start_aux + n_i - 1, arr_aux, c);
\* start_aux += n_i; c_i += c
call_from_start(anchor, make_arrangement, r, n_i, st) ==
  after_call(st,
             calculate_mla(anchor, make_arrangement, st.t, r,
                           st.start_aux, st.start_aux + n_i - 1, st.arr_aux),
             st.start_aux + n_i, st.end_aux)

\* calculate_mla<anchor>(t, r, end_aux - n_i + 1, end_aux, arr_aux, c);
\* start_aux -= n_i; c_i += c
call_from_end(anchor, make_arrangement, r, n_i, st) ==
  after_call(st,
             calculate_mla(anchor, make_arrangement, st.t, r,
                           st.end_aux - n_i + 1, st.end_aux, st.arr_aux),
             st.start_aux - n_i, st.end_aux)

\* the central part of the RIGHT_ANCHOR case:
\* calculate_mla<NO_ANCHOR>(t, one_node, end_aux - n_i + 1, end_aux, arr_aux, c);
\* end_aux -= n_i; c_i += c
call_central_from_end(make_arrangement, one_node, n_i, st) ==
  after_call(st,
             calculate_mla(NO_ANCHOR, make_arrangement, st.t, one_node,
                           st.end_aux - n_i + 1, st.end_aux, st.arr_aux),
             st.start_aux, st.end_aux - n_i)

\* the "for j" loops that place the side trees X[j], ..., X[last] left to
\* right
place_from_start(anchor, make_arrangement, ord, X, j, last, st) ==
  After(st,
    IF j > last THEN st
    ELSE place_from_start(anchor, make_arrangement, ord, X, j + 1, last,
            call_from_start(anchor, make_arrangement,
                            At(ord, At(X, j)).second, At(ord, At(X, j)).first, st)))

\* the "for j" loops of the RIGHT_ANCHOR case
place_from_end(anchor, make_arrangement, ord, X, j, last, st) ==
  After(st,
    IF j > last THEN st
    ELSE place_from_end(anchor, make_arrangement, ord, X, j + 1, last,
            call_from_end(anchor, make_arrangement,
                          At(ord, At(X, j)).second, At(ord, At(X, j)).first, st)))

\* subs: sum_{j=1..x} (x - j + 1) * (ord[X[j]].first + ord[X[2x - j + 1]].first)
RECURSIVE subs_of(_, _, _, _)
subs_of(ord, X, x, j) ==
  IF j > x THEN 0
  ELSE (x - j + 1) * (At(ord, At(X, j)).first + At(ord, At(X, 2 * x - j + 1)).first)
       + subs_of(ord, X, x, j + 1)

\* edges[i] = (one_node - 1, ord[i].second - 1) for i = 0..last
RECURSIVE edges_to_children(_, _, _, _)
edges_to_children(ord, one_node, i, last) ==
  IF i > last THEN <<>>
  ELSE <<<<one_node - 1, At(ord, i).second - 1>>>>
       \o edges_to_children(ord, one_node, i + 1, last)

\* the end of a round of the "for i" loops: c_i is completed with anchors;
\* if (c_i < cost) { cost = c_i; mla = arr_aux }; t.remove_edge(u, v).
\* acc = [t, mla, cost] are the values the rounds hand on
end_of_round(acc, make_arrangement, st, anchors, u, v) ==
  IF st.c_i + anchors < acc.cost
  THEN [t |-> remove_edge(st.t, u, v, FALSE, FALSE), cost |-> st.c_i + anchors,
        mla |-> IF make_arrangement THEN st.arr_aux ELSE acc.mla]
  ELSE [acc EXCEPT !.t = remove_edge(st.t, u, v, FALSE, FALSE)]

\* the locals of a round after t.add_edge(...), c_i = 0, arr_aux(mla),
\* start_aux = start, end_aux = end
start_of_round(t, mla, start, end) ==
  [t |-> t, arr_aux |-> mla, start_aux |-> start, end_aux |-> end, c_i |-> 0]

\* "for (i = 0; i <= 2*uq; ++i)" of the NO_ANCHOR case, from round i on
loop_Q(c, i, acc) ==
  After(acc,
    IF i > 2 * c.uq THEN acc
    ELSE LET Q_i == get_Q(c.uq, i)
             central == At(c.ord, i).first + 1 + c.size_rest_of_trees
         IN loop_Q(c, i + 1,
              end_of_round(acc, c.make_arrangement,
                 place_from_start(LEFT_ANCHOR, c.make_arrangement, c.ord, Q_i,
                    c.uq + 1, 2 * c.uq,
                    call_from_start(NO_ANCHOR, c.make_arrangement, c.u, central,
                       place_from_start(RIGHT_ANCHOR, c.make_arrangement, c.ord, Q_i,
                          1, c.uq,
                          start_of_round(
                             add_edge(acc.t, c.u - 1, At(c.ord, i).second - 1, TRUE, TRUE),
                             acc.mla, c.start, c.end)))),
                 c.size_tree * c.uq - subs_of(c.ord, Q_i, c.uq, 1) + c.uq,
                 c.u - 1, At(c.ord, i).second - 1)))

\* "for (i = 0; i <= 2*up + 1; ++i)" of the anchored cases, from round i on
loop_P(c, i, acc) ==
  After(acc,
    IF i > 2 * c.up + 1 THEN acc
    ELSE LET P_i == get_P(c.up, i)
             central == At(c.ord, i).first + 1 + c.size_rest_of_trees
             anchors == c.size_tree * (c.up + 1)
                          - (c.up + 1) * At(c.ord, At(P_i, Len(P_i) - 1)).first
                          - subs_of(c.ord, P_i, c.up, 1) + c.up
             u == c.one_node - 1
             v == At(c.ord, i).second - 1
         IN loop_P(c, i + 1,
              IF c.root = LEFT_ANCHOR
              THEN end_of_round(acc, c.make_arrangement,
                      place_from_start(LEFT_ANCHOR, c.make_arrangement, c.ord, P_i,
                         c.up + 1, 2 * c.up + 1,
                         call_from_start(NO_ANCHOR, c.make_arrangement, c.one_node, central,
                            place_from_start(RIGHT_ANCHOR, c.make_arrangement, c.ord, P_i,
                               1, c.up,
                               start_of_round(add_edge(acc.t, u, v, FALSE, FALSE),
                                              acc.mla, c.start, c.end)))),
                      anchors, u, v)
              ELSE end_of_round(acc, c.make_arrangement,
                      place_from_end(RIGHT_ANCHOR, c.make_arrangement, c.ord, P_i,
                         c.up + 1, 2 * c.up + 1,
                         call_central_from_end(c.make_arrangement, c.one_node, central,
                            place_from_end(LEFT_ANCHOR, c.make_arrangement, c.ord, P_i,
                               1, c.up,
                               start_of_round(add_edge(acc.t, u, v, FALSE, FALSE),
                                              acc.mla, c.start, c.end)))),
                      anchors, u, v)))

\* cost = c1 + c2 + extra; t.add_edge(u, v, false, false) after the second
\* call r2
after_second_call(c1_plus_extra, u, v, r2) ==
  [t |-> add_edge(r2.t, u, v, FALSE, FALSE), cost |-> c1_plus_extra + r2.cost,
   mla |-> r2.mla]

\* the end of the "for i" loop without t.add_edges(edges, false, false)
after_loop_without_add_edges(acc, edges) == acc

\* t.add_edges(edges, false, false) after the "for i" loop
after_loop(acc, edges) == [acc EXCEPT !.t = add_edges(acc.t, edges)]

\* the second of the two calls made when no p or q exists, on what the first
\* call r1 left behind; then cost = c1 + c2 + extra; t.add_edge(u, v)
second_call(anchor, make_arrangement, r1, one_node, start, end, extra, u, v) ==
  After(r1,
    after_second_call(r1.cost + extra, u, v,
       calculate_mla(anchor, make_arrangement, r1.t, one_node, start, end, r1.mla)))

\* the NO_ANCHOR case on the centroidal vertex u with its ordering ord
no_anchor_case(make_arrangement, t, u, ord, size_tree, start, end, mla) ==
  LET q == calculate_q(size_tree, ord)
      n_0 == At(ord, 0).first
      t_0 == At(ord, 0).second
      edges == edges_to_children(ord, u, 0, 2 * q.val)
      c == [make_arrangement |-> make_arrangement, u |-> u, ord |-> ord,
            uq |-> q.val, size_tree |-> size_tree, start |-> start, end |-> end,
            size_rest_of_trees |-> sum_sizes(ord, 2 * q.val + 1, Len(ord) - 1)]
  IN IF ~q.has
     THEN second_call(LEFT_ANCHOR, make_arrangement,
             calculate_mla(RIGHT_ANCHOR, make_arrangement,
                           remove_edge(t, u - 1, t_0 - 1, FALSE, FALSE),
                           t_0, start, start + n_0 - 1, mla),
             u, start + n_0, end, 1, u - 1, t_0 - 1)
     ELSE after_loop(loop_Q(c, 0, [t |-> remove_edges(t, edges), mla |-> mla,
                                   cost |-> UINT64_MAX]),
                     edges)

\* the LEFT_ANCHOR and RIGHT_ANCHOR cases on the anchor one_node with its
\* ordering ord
anchored_case(root, make_arrangement, t, one_node, ord, size_tree, start, end, mla) ==
  LET p == calculate_p(size_tree, ord)
      n_0 == At(ord, 0).first
      t_0 == At(ord, 0).second
      edges == edges_to_children(ord, one_node, 0, 2 * p.val + 1)
      c == [make_arrangement |-> make_arrangement, one_node |-> one_node,
            root |-> root, ord |-> ord, up |-> p.val, size_tree |-> size_tree,
            start |-> start, end |-> end,
            size_rest_of_trees |-> sum_sizes(ord, 2 * p.val + 2, Len(ord) - 1)]
  IN IF ~p.has
     THEN IF root = LEFT_ANCHOR
          THEN second_call(LEFT_ANCHOR, make_arrangement,
                  calculate_mla(NO_ANCHOR, make_arrangement,
                                remove_edge(t, one_node - 1, t_0 - 1, FALSE, FALSE),
                                one_node, start, end - n_0, mla),
                  t_0, end - n_0 + 1, end, size_tree - n_0, one_node - 1, t_0 - 1)
          ELSE second_call(NO_ANCHOR, make_arrangement,
                  calculate_mla(RIGHT_ANCHOR, make_arrangement,
                                remove_edge(t, one_node - 1, t_0 - 1, FALSE, FALSE),
                                t_0, start, start + n_0 - 1, mla),
                  one_node, start + n_0, end, size_tree - n_0, one_node - 1, t_0 - 1)
     ELSE after_loop(loop_P(c, 0, [t |-> remove_edges(t, edges), mla |-> mla,
                                   cost |-> UINT64_MAX]),
                     edges)

calculate_mla(root, make_arrangement, t, one_node, start, end, mla) ==
  LET size_tree == get_num_nodes_component(t, one_node - 1)
      u == retrieve_centroid(t, one_node - 1) + 1
  IN IF size_tree = 1
     THEN [t |-> t, cost |-> 0,
           mla |-> IF make_arrangement THEN assign(mla, one_node - 1, start) ELSE mla]
     ELSE IF root = NO_ANCHOR
          THEN no_anchor_case(make_arrangement, t, u, get_ordering(t, u),
                              size_tree, start, end, mla)
          ELSE anchored_case(root, make_arrangement, t, one_node,
                             get_ordering(t, one_node), size_tree, start, end, mla)

\* Result of a solver call.  status is "ok" when the call returned a pair
\* (cost, arr), "assert" when an assertion aborted the process, "crash" when
\* an out-of-range access ended it.  wrapped records an unsigned subtraction
\* that wrapped around, oob an access outside a container.
Returned(alg, cost, arr) ==
  [alg |-> alg, status |-> "ok", cost |-> cost, arr |-> arr,
   make_arrangement |-> TRUE, wrapped |-> FALSE, oob |-> FALSE]

AssertionFailed(alg) ==
  [alg |-> alg, status |-> "assert", cost |-> 0, arr |-> <<>>,
   make_arrangement |-> TRUE, wrapped |-> FALSE, oob |-> FALSE]

\* What a call can do once it has read or written outside a container: the
\* process is killed, or it goes on with whatever value it read and returns
UndefinedOutcomes(alg, wrapped) ==
  {[alg |-> alg, status |-> "crash", cost |-> 0, arr |-> <<>>,
    make_arrangement |-> TRUE, wrapped |-> wrapped, oob |-> TRUE]}
  \cup
  {[alg |-> alg, status |-> "ok", cost |-> c, arr |-> <<>>,
    make_arrangement |-> TRUE, wrapped |-> wrapped, oob |-> TRUE] : c \in {0, 1}}

\* graph::get_num_edges of an undirected graph kept as adjacency lists
RECURSIVE sum_degrees(_, _)
sum_degrees(adj, u) ==
  IF u >= Len(adj) THEN 0 ELSE Len(At(adj, u)) + sum_degrees(adj, u + 1)

get_num_edges(t) == sum_degrees(t.adj, 0) \div 2

\* tree::is_tree: the number of edges is one less than the number of vertices
is_tree(t) == get_num_edges(t) + 1 = t.n

\* Dmin_Unconstrained_FC<make_arrangement>(t) on a graph with n >= 1 vertices
Dmin_Unconstrained_FC(make_arrangement, t) ==
  LET arr == linear_arrangement(IF make_arrangement THEN t.n ELSE 0)
      r == calculate_mla(NO_ANCHOR, make_arrangement, t, 1, 0, t.n - 1, arr)
  IN [Returned("FC", r.cost, r.mla) EXCEPT !.make_arrangement = make_arrangement]

\* ------------------------------------------------------------------------
\* Projective minimum arrangement (Dmin_Projective.cpp)
\* ------------------------------------------------------------------------
\* A rooted tree rt = [n, root, out], out[u] the out-neighbours of u in
\* increasing order (arborescence).
\* right_placed_pos without the "- 1" of the even sizes
right_placed_pos_without_shift(int_size) == int_size \div 2

right_placed_pos(int_size) ==
  IF int_size % 2 = 1 THEN int_size \div 2 ELSE (int_size \div 2) - 1

left_placed_pos(int_size) ==
  IF int_size % 2 = 1 THEN int_size \div 2 ELSE int_size \div 2

get_int_size(rt, v) == Len(At(rt.out, v)) + 1

pos_in_interval(int_size, P) ==
  IF int_size = 1 THEN 0
  ELSE IF P = LEFT_PLACE THEN left_placed_pos(int_size)
  ELSE IF P = RIGHT_PLACE THEN right_placed_pos(int_size)
  ELSE int_size \div 2

start_left_right(int_size, P) ==
  IF P = LEFT_PLACE THEN (IF int_size % 2 = 1 THEN TO_RIGHT ELSE TO_LEFT)
  ELSE IF P = RIGHT_PLACE THEN (IF int_size % 2 = 1 THEN TO_LEFT ELSE TO_RIGHT)
  ELSE TO_LEFT

\* rooted_tree::n_nodes_subtree(v); the sum runs over the out-neighbours
\* i, i+1, ... of v
RECURSIVE n_nodes_subtree(_, _)
RECURSIVE n_nodes_subtrees_from(_, _, _)
n_nodes_subtree(rt, v) == 1 + n_nodes_subtrees_from(rt, v, 1)

n_nodes_subtrees_from(rt, v, i) ==
  IF i > Len(At(rt.out, v)) THEN 0
  ELSE n_nodes_subtree(rt, At(rt.out, v)[i]) + n_nodes_subtrees_from(rt, v, i + 1)

\* position (from 1) of the least .second of s, the first one among equals
RECURSIVE IndexOfMinSecond(_, _, _)
IndexOfMinSecond(s, i, best) ==
  IF i > Len(s) THEN best
  ELSE IndexOfMinSecond(s, i + 1, IF s[i].second < s[best].second THEN i ELSE best)

\* internal::counting_sort<..., true>: stable sort of (node, size) pairs by
\* increasing size
RECURSIVE counting_sort_increasing(_)
counting_sort_increasing(s) ==
  IF Len(s) <= 1 THEN s
  ELSE LET k == IndexOfMinSecond(s, 2, 1)
       IN <<s[k]>> \o counting_sort_increasing(RemoveAt(s, k))

\* the tuples (v, n_v) of the edges (u, v) in the order E_iterator visits them
RECURSIVE node_size_pairs(_, _, _)
node_size_pairs(rt, u, i) ==
  IF i > Len(At(rt.out, u)) THEN <<>>
  ELSE <<[first |-> At(rt.out, u)[i],
          second |-> n_nodes_subtree(rt, At(rt.out, u)[i])]>>
       \o node_size_pairs(rt, u, i + 1)

\* the children of u in the order E_iterator visits them, not sorted
unsorted_children(rt, u) == node_size_pairs(rt, u, 1)

\* M[u]: the list L of all (edge, size) tuples is sorted once by size and
\* then distributed over the tails u; a stable sort keeps, inside M[u], the
\* order in which E_iterator visits the out-neighbours of u
sorted_children(rt, u) == counting_sort_increasing(node_size_pairs(rt, u, 1))

\* Dmin_Pr__optimal_interval_of(t, M, r, r_place, data): returns the value D
\* and the intervals written into data
RECURSIVE Dmin_Pr__optimal_interval_of(_, _, _, _)
RECURSIVE place_children(_, _, _, _, _)

\* the loop "for (const auto& p : children)"; st holds the local variables
place_children(rt, r, children, i, st) ==
  IF i > Len(children) THEN st
  ELSE LET vi == children[i].first
           ni == children[i].second
           to_left == (st.dir = TO_LEFT)
           vi_place == IF to_left THEN LEFT_PLACE ELSE RIGHT_PLACE
           sub == Dmin_Pr__optimal_interval_of(rt, vi, vi_place, st.data)
           slot == IF to_left THEN st.leftpos ELSE st.rightpos
           st2 == [D |-> st.D + sub.D,
                   d |-> st.d + (IF to_left THEN st.acc_size_left ELSE st.acc_size_right) + 1,
                   data |-> Put(sub.data, r, Put(At(sub.data, r), slot, vi)),
                   leftpos |-> st.leftpos - (IF to_left THEN 1 ELSE 0),
                   acc_size_left |-> st.acc_size_left + (IF to_left THEN ni ELSE 0),
                   rightpos |-> st.rightpos + (IF to_left THEN 0 ELSE 1),
                   acc_size_right |-> st.acc_size_right + (IF to_left THEN 0 ELSE ni),
                   dir |-> IF to_left THEN TO_RIGHT ELSE TO_LEFT]
       IN After(st2, place_children(rt, r, children, i + 1, st2))

Dmin_Pr__optimal_interval_of(rt, r, r_place, data) ==
  LET r_int_size == get_int_size(rt, r)
      interval0 == Repeat(0, r_int_size)
  IN
  IF r_int_size = 1
  THEN [D |-> 0, data |-> Put(data, r, <<r>>)]
  ELSE IF r_int_size = 2
  THEN LET vi == At(rt.out, r)[1]
           interval == IF r_place = LEFT_PLACE THEN <<vi, r>> ELSE <<r, vi>>
           vi_place == IF r_place = LEFT_PLACE THEN LEFT_PLACE ELSE RIGHT_PLACE
           sub == Dmin_Pr__optimal_interval_of(rt, vi, vi_place, Put(data, r, interval))
       IN [D |-> sub.D + 1, data |-> sub.data]
  ELSE LET children == sorted_children(rt, r)
           root_pos == pos_in_interval(r_int_size, r_place)
           st0 == [D |-> 0, d |-> 0,
                   data |-> Put(data, r, Put(interval0, root_pos, r)),
                   leftpos |-> root_pos - 1, rightpos |-> root_pos + 1,
                   dir |-> start_left_right(r_int_size, r_place),
                   acc_size_left |-> 0, acc_size_right |-> 0]
           st == place_children(rt, r, children, 1, st0)
           anchor == IF r_place = ROOT_PLACE THEN 0
                     ELSE IF r_place = LEFT_PLACE THEN st.acc_size_right
                     ELSE st.acc_size_left
       IN [D |-> st.D + anchor + st.d, data |-> st.data]

\* the vertices of the interval of r and of the intervals nested in it, left
\* to right, from the i-th entry of the interval of r on
RECURSIVE flatten(_, _, _)
flatten(data, r, i) ==
  IF i > Len(At(data, r)) THEN <<>>
  ELSE (IF At(data, r)[i] = r THEN <<r>> ELSE flatten(data, At(data, r)[i], 1))
       \o flatten(data, r, i + 1)

\* arr[order[i]] = i for the vertices of order, left to right
RECURSIVE assign_positions(_, _, _)
assign_positions(order, i, arr) ==
  IF i > Len(order) THEN arr
  ELSE assign_positions(order, i + 1, Put(arr, order[i], i - 1))

\* internal::put_in_arrangement(t, data): the intervals are flattened from
\* the root, left to right
put_in_arrangement(rt, data) ==
  assign_positions(flatten(data, rt.root, 1), 1, Repeat(0, rt.n))

\* Dmin_Projective returning the flattened intervals as they are: the vertex
\* at every position, where the position of every vertex is asked for
Dmin_Projective_inverse(rt) ==
  IF rt.n = 1
  THEN Returned("Projective", 0, <<>>)
  ELSE LET res == Dmin_Pr__optimal_interval_of(rt, rt.root, ROOT_PLACE,
                                               Repeat(<<>>, rt.n))
       IN Returned("Projective", res.D, flatten(res.data, rt.root, 1))

\* Dmin_Projective(t) on a rooted graph with n >= 1 vertices
Dmin_Projective(rt) ==
  IF rt.n = 1
  THEN Returned("Projective", 0, <<>>)
  ELSE LET res == Dmin_Pr__optimal_interval_of(rt, rt.root, ROOT_PLACE,
                                               Repeat(<<>>, rt.n))
       IN Returned("Projective", res.D, put_in_arrangement(rt, res.data))

\* ------------------------------------------------------------------------
\* Planar minimum arrangement (Dmin_Planar_HS)
\* ------------------------------------------------------------------------
\* the free tree t rooted at c: out[v] lists the neighbours of v other than
\* its parent par; the vertices below v are oriented from its i-th child on
RECURSIVE orient(_, _, _, _)
RECURSIVE orient_children(_, _, _, _)
orient(t, par, v, out) ==
  orient_children(t, v, 1, Put(out, v, EraseFirst(At(t.adj, v), par)))

orient_children(t, v, i, out) ==
  IF i > Len(At(out, v)) THEN out
  ELSE LET out2 == orient(t, v, At(out, v)[i], out)
       IN After(out2, orient_children(t, v, i + 1, out2))

rooted_at(t, c) ==
  [n |-> t.n, root |-> c, out |-> orient(t, NoParent, c, Repeat(<<>>, t.n))]

\* Dmin_Planar_HS(t) on a graph with n >= 1 vertices: the optimal projective
\* arrangement of t rooted at a centroidal vertex
Dmin_Planar_HS(t) ==
  IF t.n = 1
  THEN Returned("Planar", 0, identity(1))
  ELSE LET c == retrieve_centroid(t, 0)
           rt == rooted_at(t, c)
           res == Dmin_Pr__optimal_interval_of(rt, c, ROOT_PLACE, Repeat(<<>>, t.n))
       IN Returned("Planar", res.D, put_in_arrangement(rt, res.data))

\* ------------------------------------------------------------------------
\* Inputs of the solvers
\* ------------------------------------------------------------------------
\* A head array h over the vertices 0..n-1: h[v+1] is the parent of v, or
\* NoParent.  Vertex 0 never has a parent and parents precede their children,
\* so the graph is a forest; it is a tree exactly when only vertex 0 lacks a
\* parent.
RECURSIVE HeadArrays(_)
HeadArrays(n) ==
  IF n = 0 THEN {<<>>}
  ELSE IF n = 1 THEN {<<NoParent>>}
  ELSE {Append(h, p) : h \in HeadArrays(n - 1), p \in {NoParent} \cup (0..(n - 2))}

\* the neighbours v, v+1, ... of u in the graph of h, in increasing order;
\* with children_only, the children of u
RECURSIVE neighbours_from(_, _, _, _)
neighbours_from(h, u, v, children_only) ==
  IF v >= Len(h) THEN <<>>
  ELSE (IF h[v + 1] = u \/ (~children_only /\ h[u + 1] = v) THEN <<v>> ELSE <<>>)
       \o neighbours_from(h, u, v + 1, children_only)

RECURSIVE adjacency_lists(_, _, _)
adjacency_lists(h, u, children_only) ==
  IF u >= Len(h) THEN <<>>
  ELSE <<neighbours_from(h, u, 0, children_only)>>
       \o adjacency_lists(h, u + 1, children_only)

\* the free tree built from h with add_edges(..., norm = true)
free_tree_of(h) ==
  [n |-> Len(h), adj |-> adjacency_lists(h, 0, FALSE), norm |-> TRUE]

\* the rooted tree built from h, root 0, edges pointing away from the root
rooted_tree_of(h) ==
  [n |-> Len(h), root |-> 0, out |-> adjacency_lists(h, 0, TRUE)]

IsTreeInput(h) == Len(h) >= 1 /\ \A i \in 2..Len(h) : h[i] # NoParent

\* head arrays of larger trees that drive the enumerating branches of
\* calculate_mla: a spider with three legs of five vertices, and two spiders
\* with four legs of five vertices joined at their centres
SpiderThreeLegsOfFive == <<NoParent, 0, 1, 2, 3, 4, 0, 6, 7, 8, 9, 0, 11, 12, 13, 14>>

TwoSpidersFourLegsOfFive ==
  <<NoParent, 0, 1, 2, 3, 4, 0, 6, 7, 8, 9, 0, 11, 12, 13, 14, 0, 16, 17, 18, 19,
    0, 21, 22, 23, 24, 25, 21, 27, 28, 29, 30, 21, 32, 33, 34, 35, 21, 37, 38, 39, 40>>

LargeInputs == {SpiderThreeLegsOfFive, TwoSpidersFourLegsOfFive}

Inputs == (UNION {HeadArrays(n) : n \in 0..MaxN}) \cup LargeInputs

\* ------------------------------------------------------------------------
\* The undirected graph container (ugraph.cpp)
\* ------------------------------------------------------------------------
\* A graph g = [n, adj, norm, m]: the adjacency lists m_adjacency_list, the
\* flag m_normalised and the counter m_num_edges.
\* ugraph::ugraph(n): n vertices, no edges
ugraph_init(n) == [n |-> n, adj |-> Repeat(<<>>, n), norm |-> TRUE, m |-> 0]

\* ugraph::has_edge(u, v): std::find over the shorter of the two lists (the
\* binary search is taken only by lists of 64 or more neighbours)
ugraph_has_edge(g, u, v) ==
  LET nu == At(g.adj, u)
      nv == At(g.adj, v)
  IN IF Len(nu) <= Len(nv) THEN IndexOf(nu, v, 1) # 0 ELSE IndexOf(nv, u, 1) # 0

\* the statements of ugraph::add_edge(u, v, to_norm) after its assertions
ugraph_add_edge(g, u, v, to_norm) ==
  LET a1 == Put(g.adj, u, Append(At(g.adj, u), v))
      a2 == Put(a1, v, Append(At(a1, v), u))
      g2 == [g EXCEPT !.adj = a2, !.m = @ + 1]
      nu == At(a2, u)
      nv == At(a2, v)
      su == Len(nu)
      sv == Len(nv)
  IN IF g.norm
     THEN IF to_norm
          THEN LET a3 == Put(a2, u, SortInc(At(a2, u)))
               IN [g2 EXCEPT !.adj = Put(a3, v, SortInc(At(a3, v)))]
          ELSE IF su > 1 /\ sv > 1
               THEN [g2 EXCEPT !.norm = nu[su - 1] < nu[su] /\ nv[sv - 1] < nv[sv]]
               ELSE IF su > 1 THEN [g2 EXCEPT !.norm = nu[su - 1] < nu[su]]
               ELSE IF sv > 1 THEN [g2 EXCEPT !.norm = nv[sv - 1] < nv[sv]]
               ELSE g2
     ELSE IF to_norm THEN normalise(g2) ELSE g2

\* the loop of ugraph::add_edges over edges[i], edges[i+1], ...
RECURSIVE push_edges(_, _, _)
push_edges(g, edges, i) ==
  IF i > Len(edges) THEN g
  ELSE LET u == edges[i][1]
           v == edges[i][2]
           a1 == Put(g.adj, u, Append(At(g.adj, u), v))
           a2 == Put(a1, v, Append(At(a1, v), u))
       IN push_edges([g EXCEPT !.adj = a2, !.m = @ + 1], edges, i + 1)

\* the statements of ugraph::add_edges(edges, to_norm) after its assertions
ugraph_add_edges(g, edges, to_norm) ==
  IF to_norm THEN normalise(push_edges(g, edges, 1))
  ELSE check_normalised(push_edges(g, edges, 1))

\* assert(not has_edge(u,v)); assert(u != v) of add_edge and of every round
\* of the loop of add_edges, each evaluated on the graph as it is by then
RECURSIVE asserts_hold(_, _, _)
asserts_hold(g, edges, i) ==
  IF i > Len(edges) THEN TRUE
  ELSE /\ ~ugraph_has_edge(g, edges[i][1], edges[i][2])
       /\ edges[i][1] # edges[i][2]
       /\ asserts_hold(push_edges(g, <<edges[i]>>, 1), edges, i + 1)

\* ------------------------------------------------------------------------
\* State
\* ------------------------------------------------------------------------
VARIABLES
  tree,     \* head array of the graph handed to the solver
  build,    \* "debug" (DEBUG defined, NDEBUG not) or "release" (NDEBUG)
  result,   \* what the solver call produced; NoResult before the call
  graph,    \* the ugraph object
  last,     \* the last call made on graph and how it ended
  du,       \* the two graphs of a disjoint_union call and what it left
  lens,     \* a graph, an arrangement and the sums of edge lengths computed
  gen,      \* the enumerator of labelled rooted trees and its driver
  ulab,     \* the enumerator of unlabelled free trees and its driver
  bfs,      \* a breadth-first traversal in progress
  reader,   \* a treebank reader, its file and its driver
  samp,     \* a sampler of unlabelled rooted trees
  svec,     \* a sorted_vector and the calls made on it
  sorter,   \* a range of integers handed to sort_1_n_inc
  rdt,      \* a rooted directed tree built by init_rooted
  fn        \* the arguments and the value of a call of a helper function

vars ==
  <<tree, build, result, graph, last, du, lens, gen, ulab, bfs, reader, samp, svec,
    sorter, rdt, fn>>

\* the objects of the other components, not constructed
Unused == <<>>

solver_and_graph_vars == <<tree, build, result, graph, last>>

sampler_and_container_vars == <<samp, svec, sorter, rdt, fn>>

Builds == {"debug", "release"}

NoResult ==
  [alg |-> "none", status |-> "none", cost |-> 0, arr |-> <<>>,
   make_arrangement |-> FALSE, wrapped |-> FALSE, oob |-> FALSE]

NoCall == [op |-> "none", status |-> "none", edges |-> <<>>, before |-> ugraph_init(0)]

\* the outcomes of min_sum_edge_lengths(t, Chung) / Dmin_Unconstrained_FC
FC_outcomes(b, make_arrangement, h) ==
  LET t == free_tree_of(h)
  IN IF b = "debug" /\ ~is_tree(t) THEN {AssertionFailed("FC")}
     ELSE IF t.n = 0 THEN UndefinedOutcomes("FC", TRUE)
     ELSE {Dmin_Unconstrained_FC(make_arrangement, t)}

\* the outcomes of Dmin_Projective
Projective_outcomes(b, h) ==
  LET rt == rooted_tree_of(h)
  IN IF b = "debug" /\ ~is_tree(free_tree_of(h)) THEN {AssertionFailed("Projective")}
     ELSE IF rt.n = 0 THEN UndefinedOutcomes("Projective", FALSE)
     ELSE {Dmin_Projective(rt)}

\* the outcomes of Dmin_Planar_HS; what the helpers do on a graph without
\* vertices is not fixed by the code at hand, so the call may also return
\* the empty arrangement
Planar_outcomes(b, h) ==
  LET t == free_tree_of(h)
  IN IF b = "debug" /\ ~is_tree(t) THEN {AssertionFailed("Planar")}
     ELSE IF t.n = 0
          THEN UndefinedOutcomes("Planar", FALSE) \cup {Returned("Planar", 0, <<>>)}
          ELSE {Dmin_Planar_HS(t)}

\* ---- the solvers, each called once on an input graph
InitDmin ==
  /\ tree \in Inputs
  /\ build \in Builds
  /\ result = NoResult
  /\ graph = ugraph_init(NumNodes)
  /\ last = NoCall
  /\ du = Unused /\ lens = Unused /\ gen = Unused
  /\ ulab = Unused /\ bfs = Unused /\ reader = Unused
  /\ samp = Unused /\ svec = Unused /\ sorter = Unused /\ rdt = Unused /\ fn = Unused

RunChung ==
  /\ result = NoResult
  /\ \E make_arrangement \in BOOLEAN :
        result' \in FC_outcomes(build, make_arrangement, tree)
  /\ UNCHANGED <<tree, build, graph, last, du, lens, gen, ulab, bfs, reader,
               sampler_and_container_vars>>

RunProjective ==
  /\ result = NoResult
  /\ result' \in Projective_outcomes(build, tree)
  /\ UNCHANGED <<tree, build, graph, last, du, lens, gen, ulab, bfs, reader,
               sampler_and_container_vars>>

RunPlanar ==
  /\ result = NoResult
  /\ result' \in Planar_outcomes(build, tree)
  /\ UNCHANGED <<tree, build, graph, last, du, lens, gen, ulab, bfs, reader,
               sampler_and_container_vars>>

NextDmin == RunChung \/ RunProjective \/ RunPlanar

SpecDmin == InitDmin /\ [][NextDmin]_vars

\* ---- the graph container, driven by any sequence of add_edge/add_edges
\* the edge lists handed to add_edges: at most two pairs of vertices
EdgeLists ==
  LET pairs == (0..(NumNodes - 1)) \X (0..(NumNodes - 1))
  IN {<<>>} \cup {<<e>> : e \in pairs} \cup {<<e, f>> : e \in pairs, f \in pairs}

InitGraph ==
  /\ tree = <<>>
  /\ build \in Builds
  /\ result = NoResult
  /\ graph = ugraph_init(NumNodes)
  /\ last = NoCall
  /\ du = Unused /\ lens = Unused /\ gen = Unused
  /\ ulab = Unused /\ bfs = Unused /\ reader = Unused
  /\ samp = Unused /\ svec = Unused /\ sorter = Unused /\ rdt = Unused /\ fn = Unused

\* a call whose assertion fails ends the process: nothing is called after it
AddEdge ==
  /\ last.status # "assert"
  /\ graph.m < MaxEdges
  /\ \E u \in Nodes(graph), v \in Nodes(graph), to_norm \in BOOLEAN :
        IF build = "debug" /\ ~asserts_hold(graph, <<<<u, v>>>>, 1)
        THEN /\ last' = [op |-> "add_edge", status |-> "assert",
                         edges |-> <<<<u, v>>>>, before |-> graph]
             /\ graph' = graph
        ELSE /\ last' = [op |-> "add_edge", status |-> "ok",
                         edges |-> <<<<u, v>>>>, before |-> graph]
             /\ graph' = ugraph_add_edge(graph, u, v, to_norm)
  /\ UNCHANGED <<tree, build, result, du, lens, gen, ulab, bfs, reader,
               sampler_and_container_vars>>

AddEdges ==
  /\ last.status # "assert"
  /\ \E edges \in EdgeLists, to_norm \in BOOLEAN :
        /\ graph.m + Len(edges) <= MaxEdges
        /\ IF build = "debug" /\ ~asserts_hold(graph, edges, 1)
           THEN /\ last' = [op |-> "add_edges", status |-> "assert",
                            edges |-> edges, before |-> graph]
                /\ graph' = graph
           ELSE /\ last' = [op |-> "add_edges", status |-> "ok",
                            edges |-> edges, before |-> graph]
                /\ graph' = ugraph_add_edges(graph, edges, to_norm)
  /\ UNCHANGED <<tree, build, result, du, lens, gen, ulab, bfs, reader,
               sampler_and_container_vars>>

NextGraph == AddEdge \/ AddEdges

SpecGraph == InitGraph /\ [][NextGraph]_vars

\* ------------------------------------------------------------------------
\* Reference definitions used by the properties
\* ------------------------------------------------------------------------
\* An arrangement is the array pos, pos[u] the position of vertex u.
\* the sum of |pos[u] - pos[v]| over the neighbours v = adj[u][i], ... of u
RECURSIVE LengthsAt(_, _, _, _)
LengthsAt(t, pos, u, i) ==
  IF i > Len(At(t.adj, u)) THEN 0
  ELSE Abs(At(pos, u) - At(pos, At(t.adj, u)[i])) + LengthsAt(t, pos, u, i + 1)

RECURSIVE LengthsFrom(_, _, _)
LengthsFrom(t, pos, u) ==
  IF u >= t.n THEN 0 ELSE LengthsAt(t, pos, u, 1) + LengthsFrom(t, pos, u + 1)

\* D(T, pi): the sum of |pi(u) - pi(v)| over the edges of T; every edge is
\* met from both of its ends
D(t, pos) == LengthsFrom(t, pos, 0) \div 2

\* pos assigns the n positions 0..n-1 to the n vertices, one each
IsArrangement(n, pos) ==
  /\ Len(pos) = n
  /\ \A u \in 1..n : pos[u] \in 0..(n - 1)
  /\ \A u, v \in 1..n : u # v => pos[u] # pos[v]

\* all the orders of the elements of S
RECURSIVE Permutations(_)
Permutations(S) ==
  IF S = {} THEN {<<>>}
  ELSE UNION {{<<x>> \o p : p \in Permutations(S \ {x})} : x \in S}

\* the minimum of D over all n! arrangements of t
MinD(t) == SetMin({D(t, pi) : pi \in Permutations(Nodes(t))})

\* the edges e and f cross: exactly one end of f lies strictly inside e
Crossing(pos, e, f) ==
  LET a == IF At(pos, e[1]) < At(pos, e[2]) THEN At(pos, e[1]) ELSE At(pos, e[2])
      b == IF At(pos, e[1]) < At(pos, e[2]) THEN At(pos, e[2]) ELSE At(pos, e[1])
      c == IF At(pos, f[1]) < At(pos, f[2]) THEN At(pos, f[1]) ELSE At(pos, f[2])
      d == IF At(pos, f[1]) < At(pos, f[2]) THEN At(pos, f[2]) ELSE At(pos, f[1])
  IN (a < c /\ c < b /\ b < d) \/ (c < a /\ a < d /\ d < b)

\* no two edges of E cross
NoCrossings(E, pos) == \A e \in E, f \in E : ~Crossing(pos, e, f)

\* no edge of E passes over the vertex r
NotCovered(E, pos, r) ==
  \A e \in E :
     ~(/\ At(pos, e[1]) < At(pos, r) \/ At(pos, e[2]) < At(pos, r)
       /\ At(pos, e[1]) > At(pos, r) \/ At(pos, e[2]) > At(pos, r))

\* the minimum of D over the projective arrangements of t rooted at r
MinDProjective(t, r) ==
  LET E == Edges(t)
  IN SetMin({D(t, pi) : pi \in {p \in Permutations(Nodes(t)) :
                                   NoCrossings(E, p) /\ NotCovered(E, p, r)}})

\* ------------------------------------------------------------------------
\* Properties
\* ------------------------------------------------------------------------
\* the solver call on tree has been made by alg
Called(alg) == result.alg = alg

CostIsLengthOfArrangement ==
  (IsTreeInput(tree) /\ (Called("FC") \/ Called("Projective"))
     /\ result.status = "ok" /\ result.make_arrangement)
     => D(free_tree_of(tree), result.arr) = result.cost

\* C3: on every tree with n >= 1 vertices the arrangement returned by Chung's
\* algorithm with make_arrangement = true is a bijection onto [0, n): the
\* calls of calculate_mla place every component on distinct positions of its
\* range.
ChungArrangementIsBijection ==
  (IsTreeInput(tree) /\ Called("FC") /\ result.status = "ok" /\ result.make_arrangement)
     => IsArrangement(Len(tree), result.arr)

SingleVertexGivesIdentity ==
  (Len(tree) = 1 /\ ~Called("none") /\ result.make_arrangement)
     => (result.status = "ok" /\ result.cost = 0 /\ result.arr = identity(1))

\* C7: on the empty tree every solver returns (0, empty arrangement), with no
\* access out of range, no wrap-around and no failed assertion.
EmptyTreeGivesEmptyArrangement ==
  (Len(tree) = 0 /\ ~Called("none"))
     => /\ result.status = "ok" /\ result.cost = 0 /\ result.arr = <<>>
        /\ ~result.oob /\ ~result.wrapped

\* C8: on a graph that is not a tree every solver returns the error NotATree,
\* in the release build as in the debug build.
NonTreeIsRejected ==
  (Len(tree) >= 1 /\ ~IsTreeInput(tree) /\ ~Called("none"))
     => result.status = "NotATree"

\* C9: add_edge(u, v) with u = v, or with an edge already in the graph, fails
\* with InvalidEdge and leaves the adjacency lists, the edge count and the
\* normalised flag as they were.
InvalidEdgeIsRejected ==
  (last.op = "add_edge" /\ ~asserts_hold(last.before, last.edges, 1))
     => (last.status = "InvalidEdge" /\ graph = last.before)

\* C10: after any sequence of add_edge and add_edges calls no vertex is in
\* its own adjacency list, no vertex is twice in one list, v is in adj[u]
\* exactly when u is in adj[v], and m is half the sum of the list lengths.
GraphIsSimple ==
  /\ \A u \in Nodes(graph) : IndexOf(At(graph.adj, u), u, 1) = 0
  /\ \A u \in Nodes(graph) :
        Cardinality(SeqToSet(At(graph.adj, u))) = Len(At(graph.adj, u))
  /\ \A u, v \in Nodes(graph) :
        (IndexOf(At(graph.adj, u), v, 1) # 0) <=> (IndexOf(At(graph.adj, v), u, 1) # 0)
  /\ 2 * graph.m = sum_degrees(graph.adj, 0)

\* every adjacency list of the graph is strictly ascending
StrictlyAscending(s) == \A i \in 1..(Len(s) - 1) : s[i] < s[i + 1]

\* C11: after any sequence of add_edge and add_edges calls, with any mix of
\* normalise arguments, the normalised flag is true exactly when every
\* adjacency list is strictly ascending.
NormalisedFlagIsExact ==
  graph.norm <=> \A u \in Nodes(graph) : StrictlyAscending(At(graph.adj, u))

\* ------------------------------------------------------------------------
\* Disjoint union of directed graphs (directed_graph.cpp, rdtree.cpp)
\* ------------------------------------------------------------------------
\* A directed graph g = [n, out, in, m, norm]: m_adjacency_list,
\* m_in_adjacency_list, m_num_edges and m_normalised.
MaxUnionNodes == 3

\* the list l with every vertex relabelled by + n
RECURSIVE relabelled(_, _)
relabelled(l, n) ==
  IF l = <<>> THEN <<>> ELSE <<Head(l) + n>> \o relabelled(Tail(l), n)

\* the adjacency lists adj, each relabelled by + n
RECURSIVE relabelled_lists(_, _)
relabelled_lists(adj, n) ==
  IF adj = <<>> THEN <<>>
  ELSE <<relabelled(Head(adj), n)>> \o relabelled_lists(Tail(adj), n)

\* graph::__disjoint_union(g): the out-neighbours of g appended and
\* relabelled, the number of edges and the normalisation updated
graph__disjoint_union(G, H) ==
  [G EXCEPT !.n = G.n + H.n,
            !.out = G.out \o relabelled_lists(H.out, G.n),
            !.m = G.m + H.m,
            !.norm = G.norm /\ H.norm]

\* directed_graph::disjoint_union(g)
directed_graph_disjoint_union(G, H) ==
  LET n == G.n
  IN [graph__disjoint_union(G, H) EXCEPT !.in = G.in \o relabelled_lists(H.in, n)]

\* rdtree::disjoint_union(const graph&) { }
rdtree_disjoint_union(G, H) == G

\* the in-neighbours of the vertices u, u+1, ... of the graph of the head
\* array h
RECURSIVE in_lists(_, _)
in_lists(h, u) ==
  IF u >= Len(h) THEN <<>>
  ELSE <<IF h[u + 1] = NoParent THEN <<>> ELSE <<h[u + 1]>>>> \o in_lists(h, u + 1)

\* the directed graph with the edges parent -> child of the head array h
digraph_of(h) ==
  [n |-> Len(h), out |-> adjacency_lists(h, 0, TRUE), in |-> in_lists(h, 0),
   m |-> Cardinality({i \in 1..Len(h) : h[i] # NoParent}), norm |-> TRUE]

\* two opposing edges; a graph that is not normalised
TwoOpposingEdges ==
  [n |-> 2, out |-> <<<<1>>, <<0>>>>, in |-> <<<<1>>, <<0>>>>, m |-> 2, norm |-> TRUE]

NotNormalisedDigraph ==
  [n |-> 3, out |-> <<<<2, 1>>, <<>>, <<>>>>, in |-> <<<<>>, <<0>>, <<0>>>>,
   m |-> 2, norm |-> FALSE]

RootedTrees ==
  {digraph_of(h) : h \in {x \in UNION {HeadArrays(n) : n \in 1..MaxUnionNodes} :
                             IsTreeInput(x)}}

Digraphs ==
  {digraph_of(h) : h \in UNION {HeadArrays(n) : n \in 0..MaxUnionNodes}}
    \cup {TwoOpposingEdges, NotNormalisedDigraph}

InitUnion ==
  /\ tree = <<>> /\ build = "release" /\ result = NoResult
  /\ graph = ugraph_init(0) /\ last = NoCall
  /\ du \in {[G |-> g, H |-> h, class |-> "dgraph", called |-> FALSE, res |-> g] :
               g \in Digraphs, h \in Digraphs}
          \cup {[G |-> g, H |-> h, class |-> "rdtree", called |-> FALSE, res |-> g] :
               g \in RootedTrees, h \in RootedTrees}
  /\ lens = Unused /\ gen = Unused /\ ulab = Unused /\ bfs = Unused /\ reader = Unused
  /\ samp = Unused /\ svec = Unused /\ sorter = Unused /\ rdt = Unused /\ fn = Unused

\* G.disjoint_union(H) on an object of class dgraph
DisjointUnionDirected ==
  /\ du.class = "dgraph" /\ ~du.called
  /\ du' = [du EXCEPT !.called = TRUE,
                      !.res = directed_graph_disjoint_union(du.G, du.H)]
  /\ UNCHANGED <<solver_and_graph_vars, lens, gen, ulab, bfs, reader,
               sampler_and_container_vars>>

\* G.disjoint_union(H) on an object of class rdtree
DisjointUnionRooted ==
  /\ du.class = "rdtree" /\ ~du.called
  /\ du' = [du EXCEPT !.called = TRUE, !.res = rdtree_disjoint_union(du.G, du.H)]
  /\ UNCHANGED <<solver_and_graph_vars, lens, gen, ulab, bfs, reader,
               sampler_and_container_vars>>

NextUnion == DisjointUnionDirected \/ DisjointUnionRooted

SpecUnion == InitUnion /\ [][NextUnion]_vars

\* the edges of a directed graph, read from its out-neighbours and from its
\* in-neighbours
OutEdges(g) == {<<u, v>> \in (0..(Len(g.out) - 1)) \X (0..(g.n + MaxUnionNodes)) :
                  IndexOf(At(g.out, u), v, 1) # 0}

InEdges(g) == {<<u, v>> \in (0..(g.n + MaxUnionNodes)) \X (0..(Len(g.in) - 1)) :
                 IndexOf(At(g.in, v), u, 1) # 0}

ShiftedEdges(E, n) == {<<e[1] + n, e[2] + n>> : e \in E}

\* what disjoint_union has to leave in G
IsDisjointUnion(res, G, H) ==
  /\ res.n = G.n + H.n
  /\ Len(res.out) = res.n /\ Len(res.in) = res.n
  /\ res.m = G.m + H.m
  /\ OutEdges(res) = OutEdges(G) \cup ShiftedEdges(OutEdges(H), G.n)
  /\ InEdges(res) = OutEdges(res)

\* C12: disjoint_union of G with H leaves G with |V(G)| + |V(H)| vertices and
\* |E(G)| + |E(H)| edges, every edge (u, v) of H being (u + |V(G)|, v + |V(G)|)
\* and the edges of G unchanged, for every graph class that offers
\* disjoint_union, rooted directed trees included.
DisjointUnionAddsShiftedEdges ==
  du.called => IsDisjointUnion(du.res, du.G, du.H)

\* ------------------------------------------------------------------------
\* Sum of edge lengths (the two files that define __sum_length_edges)
\* ------------------------------------------------------------------------
MaxMetricNodes == 3

\* edge_iterator: the edges (u, v), u < v, of g from the i-th neighbour of u on
RECURSIVE edges_from(_, _, _)
edges_from(g, u, i) ==
  IF u >= g.n THEN <<>>
  ELSE IF i > Len(At(g.adj, u)) THEN edges_from(g, u + 1, 1)
  ELSE (IF u < At(g.adj, u)[i] THEN <<<<u, At(g.adj, u)[i]>>>> ELSE <<>>)
       \o edges_from(g, u, i + 1)

\* call_with_empty_arrangement(F, g, pi): the arrangement handed to F
call_with_empty_arrangement_no_iota(n, pi) ==
  IF Len(pi) # 0 THEN pi ELSE Repeat(0, n)

call_with_empty_arrangement(n, pi) ==
  IF Len(pi) # 0 THEN pi ELSE Range(0, n - 1)

\* __sum_length_edges(const graph&, const LINARR& pi): the while loop, from
\* the k-th edge on
RECURSIVE linarr_sum_loop(_, _, _, _)
linarr_sum_loop(E, pi, k, l) ==
  IF k > Len(E) THEN l
  ELSE LET ps == At(pi, E[k][1])
           pt == At(pi, E[k][2])
       IN linarr_sum_loop(E, pi, k + 1, l + (IF ps < pt THEN pt - ps ELSE ps - pt))

linarr__sum_length_edges(g, pi) == linarr_sum_loop(edges_from(g, 0, 1), pi, 1, 0)

\* sum_length_edges(const graph&, const LINARR&)
linarr_sum_length_edges(g, pi) ==
  linarr__sum_length_edges(g, call_with_empty_arrangement(g.n, pi))

\* __sum_length_edges(const ugraph&, const vector<node>& arr): the loop
\* "T[ arr[i] ] = i" from i on; T comes from malloc
RECURSIVE translation_table(_, _, _)
translation_table(arr, i, T) ==
  IF i >= Len(T) THEN T
  ELSE translation_table(arr, i + 1, Put(T, At(arr, i), i))

RECURSIVE ugraph_sum_loop(_, _, _, _)
ugraph_sum_loop(E, T, k, l) ==
  IF k > Len(E) THEN l
  ELSE LET Tu == At(T, E[k][1])
           Tv == At(T, E[k][2])
       IN ugraph_sum_loop(E, T, k + 1, l + (IF Tu >= Tv THEN Tu - Tv ELSE Tv - Tu))

\* junk is what malloc left in every cell of T
ugraph__sum_length_edges(g, arr, junk) ==
  ugraph_sum_loop(edges_from(g, 0, 1),
                  translation_table(arr, 0, Repeat(junk, g.n)), 1, 0)

\* sum_length_edges(const ugraph&, const vector<node>&)
ugraph_sum_length_edges(g, arr, junk) ==
  ugraph__sum_length_edges(g, call_with_empty_arrangement(g.n, arr), junk)

\* the pairs (u, v), u < v, of n vertices in lexicographic order
RECURSIVE pairs_from(_, _, _)
pairs_from(n, u, v) ==
  IF u >= n - 1 THEN <<>>
  ELSE IF v >= n THEN pairs_from(n, u + 1, u + 2)
  ELSE <<<<u, v>>>> \o pairs_from(n, u, v + 1)

\* the subsequences of a sequence
RECURSIVE Subsequences(_)
Subsequences(s) ==
  IF s = <<>> THEN {<<>>}
  ELSE LET rest == Subsequences(Tail(s))
       IN rest \cup {<<Head(s)>> \o r : r \in rest}

\* the simple graphs on n vertices, built with add_edges
SimpleGraphs(n) ==
  {ugraph_add_edges(ugraph_init(n), es, TRUE) : es \in Subsequences(pairs_from(n, 0, 1))}

\* a graph with an arrangement of its vertices, or the empty arrangement
MetricInputs ==
  UNION {{[g |-> g, pi |-> pi] : g \in SimpleGraphs(n),
                                 pi \in Permutations(0..(n - 1)) \cup {<<>>}} :
         n \in 0..MaxMetricNodes}

InitMetric ==
  /\ tree = <<>> /\ build = "release" /\ result = NoResult
  /\ graph = ugraph_init(0) /\ last = NoCall
  /\ du = Unused
  /\ \E x \in MetricInputs, junk \in {0, 1} :
        lens = [g |-> x.g, pi |-> x.pi, junk |-> junk, called |-> "none", D |-> 0]
  /\ gen = Unused /\ ulab = Unused /\ bfs = Unused /\ reader = Unused
  /\ samp = Unused /\ svec = Unused /\ sorter = Unused /\ rdt = Unused /\ fn = Unused

\* sum_length_edges(g, pi) of the file with the LINARR signature
SumLengthEdgesLinarr ==
  /\ lens.called = "none"
  /\ lens' = [lens EXCEPT !.called = "linarr",
                          !.D = linarr_sum_length_edges(lens.g, lens.pi)]
  /\ UNCHANGED <<solver_and_graph_vars, du, gen, ulab, bfs, reader,
               sampler_and_container_vars>>

\* sum_length_edges(g, arr) of the file with the ugraph signature
SumLengthEdgesUgraph ==
  /\ lens.called = "none"
  /\ lens' = [lens EXCEPT !.called = "ugraph",
                          !.D = ugraph_sum_length_edges(lens.g, lens.pi, lens.junk)]
  /\ UNCHANGED <<solver_and_graph_vars, du, gen, ulab, bfs, reader,
               sampler_and_container_vars>>

NextMetric == SumLengthEdgesLinarr \/ SumLengthEdgesUgraph

SpecMetric == InitMetric /\ [][NextMetric]_vars

\* C13: for every graph g and every arrangement pi, pi[u] the position of
\* vertex u, every implementation of the sum of edge lengths returns the sum
\* of |pi[u] - pi[v]| over the edges (u, v) of g.
SumOfEdgeLengthsIsD ==
  (lens.called # "none" /\ lens.pi # <<>>) => lens.D = D(lens.g, lens.pi)

\* C14: the empty arrangement gives what the identity arrangement of the
\* graph's size gives: sum_length_edges(g, empty) = sum_length_edges(g, identity).
EmptyArrangementIsIdentity ==
  /\ (lens.called = "linarr" /\ lens.pi = <<>>)
        => lens.D = linarr_sum_length_edges(lens.g, identity(lens.g.n))
  /\ (lens.called = "ugraph" /\ lens.pi = <<>>)
        => lens.D = ugraph_sum_length_edges(lens.g, identity(lens.g.n), lens.junk)

\* the empty arrangement has been handed over with a graph that has edges of
\* length two under the identity
EmptyArrangementIsIdentity_Witness ==
  /\ lens.called # "none" /\ lens.pi = <<>>
  /\ lens.g.n >= 3 /\ ugraph_has_edge(lens.g, 0, 2)
  /\ lens.D = D(lens.g, identity(lens.g.n)) /\ lens.D >= 2

\* ------------------------------------------------------------------------
\* Enumerator of labelled rooted trees (all_lab_rooted_trees.cpp)
\* ------------------------------------------------------------------------
MaxGenNodes == 4
\* the driver resets the enumerator at most MaxResets times, each time
\* before it has taken more than MaxTakenBeforeReset trees or at the end
MaxResets == 1
MaxTakenBeforeReset == 2

RECURSIVE Power(_, _)
Power(b, e) == IF e = 0 THEN 1 ELSE b * Power(b, e - 1)

\* all_lab_free_trees: the number of Pruefer sequences of length n - 2
num_free_trees(n) == IF n <= 2 THEN 1 ELSE Power(n, n - 2)

\* the k-th (from 0) sequence of length len over 0..n-1 in lexicographic order
RECURSIVE prufer_sequence(_, _, _)
prufer_sequence(n, len, k) ==
  IF len <= 0 THEN <<>>
  ELSE <<k \div Power(n, len - 1)>> \o prufer_sequence(n, len - 1, k % Power(n, len - 1))

\* how often x occurs in the sequence s
RECURSIVE occurrences(_, _)
occurrences(s, x) ==
  IF s = <<>> THEN 0
  ELSE (IF Head(s) = x THEN 1 ELSE 0) + occurrences(Tail(s), x)

\* decoding: join the smallest leaf to the head of the sequence, drop both;
\* left is the set of vertices still to be joined
RECURSIVE decode_prufer(_, _)
decode_prufer(left, s) ==
  IF s = <<>>
  THEN IF Cardinality(left) = 2 THEN {left} ELSE {}
  ELSE LET leaf == SetMin({v \in left : occurrences(s, v) = 0})
       IN {{leaf, Head(s)}} \cup decode_prufer(left \ {leaf}, Tail(s))

\* all_lab_free_trees::get_tree after k calls of next: the free tree of the
\* (k-1)-th sequence, as [n, E]
lab_free_tree(n, k) ==
  [n |-> n, E |-> decode_prufer(0..(n - 1), prufer_sequence(n, n - 2, k - 1))]

\* m_cur_ftree before any tree has been generated: a free tree without vertices
EmptyFreeTree == [n |-> 0, E |-> {}]

\* all_lab_rooted_trees(n): the state [m_n, m_cur_root, free, m_cur_ftree];
\* free is the number of trees m_gen_lab_free_tree has generated
lab_rooted_reset(g) == [g EXCEPT !.m_cur_root = g.m_n - 1, !.free = 0]

lab_rooted_init(n) ==
  lab_rooted_reset([m_n |-> n, m_cur_root |-> 0, free |-> 0,
                    m_cur_ftree |-> EmptyFreeTree])

lab_rooted_has_next(g) ==
  ~(g.m_cur_root + 1 >= g.m_n /\ ~(g.free < num_free_trees(g.m_n)))

\* next() that leaves the root where it is
lab_rooted_next_same_root(g) ==
  IF g.m_cur_root = g.m_n - 1
  THEN [g EXCEPT !.free = g.free + 1,
                 !.m_cur_ftree = lab_free_tree(g.m_n, g.free + 1)]
  ELSE g

lab_rooted_next(g) ==
  IF g.m_cur_root = g.m_n - 1
  THEN [g EXCEPT !.m_cur_root = 0, !.free = g.free + 1,
                 !.m_cur_ftree = lab_free_tree(g.m_n, g.free + 1)]
  ELSE [g EXCEPT !.m_cur_root = g.m_cur_root + 1]

\* __get_tree(): rooted_tree(m_cur_ftree, m_cur_root)
lab_rooted_get_tree(g) == [tree |-> g.m_cur_ftree, root |-> g.m_cur_root]

NoTree == [tree |-> EmptyFreeTree, root |-> -1]

\* gen = [g, pc, fresh, first, taken, resets]: the enumerator, the position of
\* the driver in "while (has_next()) { next(); get_tree(); }", whether next
\* has not been called since init/reset, what get_tree returned when called
\* in that situation, the trees taken by the loop, the resets made
InitLabRooted ==
  /\ tree = <<>> /\ build = "release" /\ result = NoResult
  /\ graph = ugraph_init(0) /\ last = NoCall
  /\ du = Unused /\ lens = Unused
  /\ \E n \in 1..MaxGenNodes :
        gen = [g |-> lab_rooted_init(n), pc |-> "has_next", fresh |-> TRUE,
               first |-> NoTree, taken |-> <<>>, resets |-> 0]
  /\ ulab = Unused /\ bfs = Unused /\ reader = Unused
  /\ samp = Unused /\ svec = Unused /\ sorter = Unused /\ rdt = Unused /\ fn = Unused

\* get_tree() right after construction or reset()
LabRootedGetTreeAtOnce ==
  /\ gen.pc = "has_next" /\ gen.fresh /\ gen.first = NoTree
  /\ gen' = [gen EXCEPT !.first = lab_rooted_get_tree(gen.g)]
  /\ UNCHANGED <<solver_and_graph_vars, du, lens, ulab, bfs, reader,
               sampler_and_container_vars>>

\* has_next() returned true; next()
LabRootedNext ==
  /\ gen.pc = "has_next" /\ lab_rooted_has_next(gen.g)
  /\ gen' = [gen EXCEPT !.g = lab_rooted_next(gen.g), !.pc = "get_tree",
                        !.fresh = FALSE]
  /\ UNCHANGED <<solver_and_graph_vars, du, lens, ulab, bfs, reader,
               sampler_and_container_vars>>

\* get_tree() in the loop
LabRootedGetTree ==
  /\ gen.pc = "get_tree"
  /\ gen' = [gen EXCEPT !.taken = Append(gen.taken, lab_rooted_get_tree(gen.g)),
                        !.pc = "has_next"]
  /\ UNCHANGED <<solver_and_graph_vars, du, lens, ulab, bfs, reader,
               sampler_and_container_vars>>

\* reset(), after which the loop starts again
LabRootedReset ==
  /\ gen.pc = "has_next" /\ gen.resets < MaxResets
  /\ Len(gen.taken) <= MaxTakenBeforeReset \/ ~lab_rooted_has_next(gen.g)
  /\ gen' = [gen EXCEPT !.g = lab_rooted_reset(gen.g), !.fresh = TRUE,
                        !.first = NoTree, !.taken = <<>>,
                        !.resets = gen.resets + 1]
  /\ UNCHANGED <<solver_and_graph_vars, du, lens, ulab, bfs, reader,
               sampler_and_container_vars>>

NextLabRooted ==
  LabRootedGetTreeAtOnce \/ LabRootedNext \/ LabRootedGetTree \/ LabRootedReset

SpecLabRooted == InitLabRooted /\ [][NextLabRooted]_vars

\* the sets of n - 1 edges on n vertices that join all of them
Reach(E, seen) ==
  seen \cup {v \in UNION E : \E e \in E : v \in e /\ e \cap seen # {}}

RECURSIVE Component(_, _)
Component(E, seen) ==
  IF Reach(E, seen) = seen THEN seen ELSE Component(E, Reach(E, seen))

AllLabelledFreeTrees(n) ==
  LET P == {{u, v} : u \in 0..(n - 1), v \in 0..(n - 1)} \ {{u} : u \in 0..(n - 1)}
  IN {[n |-> n, E |-> E] :
        E \in {F \in SUBSET P : Cardinality(F) = n - 1
                                  /\ (n = 1 \/ Component(F, {0}) = 0..(n - 1))}}

AllLabelledRootedTrees(n) ==
  {[tree |-> t, root |-> r] : t \in AllLabelledFreeTrees(n), r \in 0..(n - 1)}

\* C15: right after construction or init, and right after reset(), get_tree()
\* returns the first tree of the enumeration with no call of next() between.
GetTreeAtOnceIsFirstTree ==
  (gen.first # NoTree)
     => gen.first = [tree |-> lab_free_tree(gen.g.m_n, 1), root |-> 0]

MaxUlabNodes == 7
\* init(n) is called again at most MaxUlabInits times
MaxUlabInits == 1

\* a - b in uint64_t, as far as comparisons see it: a difference below zero
\* wraps around to a value above every index
USub(a, b) == IF a >= b THEN a - b ELSE UINT64_MAX - (b - a) + 1

\* m_L[i - 1] and m_W[i - 1] of the source are L[i] and W[i]
\* free_ulab_trees::init(n): the loops that fill L and W
RECURSIVE ulab_init_low(_, _, _)
ulab_init_low(g, k, i) ==
  IF i >= k THEN g
  ELSE ulab_init_low([g EXCEPT !.W = Put(g.W, i, i), !.L = Put(g.L, i, i + 1)],
                     k, i + 1)

RECURSIVE ulab_init_high(_, _, _)
ulab_init_high(g, k, i) ==
  IF i >= g.n THEN g
  ELSE ulab_init_high([g EXCEPT !.W = Put(g.W, i, i), !.L = Put(g.L, i, i - k + 2)],
                      k, i + 1)

ulab_init_middle(g, k) == [g EXCEPT !.W = Put(g.W, k, 1), !.L = Put(g.L, k, 2)]

\* the members p, q, h1, h2, r, c are not initialised for n <= 2 and never
\* read then
free_ulab_trees_init(n) ==
  LET k == (n \div 2) + 1
      g0 == [n |-> n, is_last |-> (n = 0), first_it |-> TRUE,
             L |-> Repeat(0, n), W |-> Repeat(0, n),
             p |-> 0, q |-> 0, h1 |-> 0, h2 |-> 0, r |-> 0, c |-> 0]
      g1 == [g0 EXCEPT !.p = IF n = 4 THEN 3 ELSE n, !.q = n - 1, !.h1 = k,
                       !.h2 = n, !.r = k,
                       !.c = IF n % 2 = 0 THEN n + 1 ELSE UINT64_MAX,
                       !.first_it = ~(n <= 3)]
  IN IF n <= 2 THEN g0
     ELSE ulab_init_high(ulab_init_middle(ulab_init_low(g1, k, 0), k), k, k + 1)

free_ulab_trees_has_next(g) == ~g.is_last

\* next(): the first "if" after the simple cases; fixit is added to the
\* state for the rest of the call
ulab_next_first_if(g) ==
  IF \/ g.c = g.n + 1
     \/ /\ g.p = g.h2
        /\ \/ (g.L[g.h1] = g.L[g.h2] + 1
                 /\ USub(g.n, g.h2) > USub(g.r, g.h1))
           \/ (g.L[g.h1] = g.L[g.h2]
                 /\ USub(g.n, g.h2) + 1 < USub(g.r, g.h1))
  THEN IF g.L[g.r] > 3
       THEN [p |-> g.r, q |-> g.W[g.r], r |-> g.r,
             h1 |-> IF g.h1 = g.r THEN g.h1 - 1 ELSE g.h1, fixit |-> TRUE]
       ELSE [p |-> g.r, q |-> 2, r |-> g.r - 1, h1 |-> g.h1, fixit |-> FALSE]
  ELSE [p |-> g.p, q |-> g.q, r |-> g.r, h1 |-> g.h1, fixit |-> FALSE]

\* the state with what the first "if" changed
ulab_after_first_if(g, a) ==
  [n |-> g.n, is_last |-> g.is_last, first_it |-> g.first_it, L |-> g.L,
   W |-> g.W, p |-> a.p, q |-> a.q, h1 |-> a.h1, h2 |-> g.h2, r |-> a.r,
   c |-> g.c, fixit |-> a.fixit]

\* "if (m_p <= m_h1) m_h1 = m_p - 1" and the choice of needr, needh2, needc
ulab_next_needs(g) ==
  LET h1 == IF g.p <= g.h1 THEN g.p - 1 ELSE g.h1
      same == g.L[g.h2] = g.L[h1] - 1 /\ g.n - g.h2 = g.r - h1
  IN [n |-> g.n, is_last |-> g.is_last, first_it |-> g.first_it, L |-> g.L,
      W |-> g.W, q |-> g.q, h1 |-> h1, h2 |-> g.h2, r |-> g.r, fixit |-> g.fixit,
      needr |-> g.p <= g.r,
      needh2 |-> ~(g.p <= g.r) /\ g.p <= g.h2,
      needc |-> ~(g.p <= g.r) /\ ~(g.p <= g.h2) /\ same /\ g.p <= g.c,
      c |-> IF ~(g.p <= g.r) /\ ~(g.p <= g.h2) /\ ~same THEN UINT64_MAX ELSE g.c,
      oldp |-> g.p, delta |-> g.q - g.p, oldLq |-> g.L[g.q], oldWq |-> g.W[g.q],
      p |-> UINT64_MAX]

\* the body of "for (i = oldp; i <= m_n; ++i)", statement by statement
ulab_copy_level(g, i) ==
  LET Li == g.L[i + g.delta]
      q == IF Li = g.oldLq THEN g.oldWq ELSE g.W[i + g.delta] - g.delta
  IN IF Li = 2
     THEN [g EXCEPT !.L[i] = Li, !.W[i] = 1]
     ELSE [g EXCEPT !.L[i] = Li, !.p = i, !.q = q, !.W[i] = q]

ulab_need_r(g, i) ==
  IF g.needr /\ g.L[i] = 2
  THEN [g EXCEPT !.needr = FALSE, !.needh2 = TRUE, !.r = i - 1]
  ELSE g

ulab_need_h2(g, i) ==
  IF g.needh2 /\ g.L[i] <= g.L[i - 1] /\ i > g.r + 1
  THEN IF g.L[i - 1] = g.L[g.h1] - 1 /\ g.n - (i - 1) = g.r - g.h1
       THEN [g EXCEPT !.needh2 = FALSE, !.h2 = i - 1, !.needc = TRUE]
       ELSE [g EXCEPT !.needh2 = FALSE, !.h2 = i - 1, !.c = UINT64_MAX]
  ELSE g

ulab_need_c(g, i) ==
  IF g.needc
  THEN IF g.L[i] # g.L[g.h1 - g.h2 + i] - 1
       THEN [g EXCEPT !.needc = FALSE, !.c = i]
       ELSE [g EXCEPT !.c = i + 1]
  ELSE g

RECURSIVE ulab_next_loop(_, _)
ulab_next_loop(g, i) ==
  After(g,
    IF i > g.n THEN g
    ELSE ulab_next_loop(
           ulab_need_c(ulab_need_h2(ulab_need_r(ulab_copy_level(g, i), i), i), i),
           i + 1))

\* "for (i = m_r + 1; i <= m_n; ++i)" of the fixit branch
RECURSIVE ulab_fixit_loop(_, _)
ulab_fixit_loop(g, i) ==
  IF i > g.n THEN g
  ELSE ulab_fixit_loop([g EXCEPT !.L[i] = i - g.r + 1, !.W[i] = i - 1], i + 1)

ulab_fixit(g) ==
  LET r == g.n - g.h1 + 1
      g1 == ulab_fixit_loop([g EXCEPT !.r = r], r + 1)
  IN [g1 EXCEPT !.W[r + 1] = 1, !.h2 = g.n, !.p = g.n, !.q = g.n - 1,
                !.c = UINT64_MAX]

\* the else branch of "if (fixit)"
ulab_no_fixit_p(g) ==
  IF g.p = UINT64_MAX
  THEN LET p == IF g.L[g.oldp - 1] # 2 THEN g.oldp - 1 ELSE g.oldp - 2
       IN [g EXCEPT !.p = p, !.q = g.W[p]]
  ELSE g

ulab_no_fixit_h2(g) ==
  IF g.needh2
  THEN [g EXCEPT !.h2 = g.n,
                 !.c = IF g.L[g.n] = g.L[g.h1] - 1 /\ g.h1 = g.r
                       THEN g.n + 1 ELSE UINT64_MAX]
  ELSE g

\* the members of the object out of the state of a call of next()
ulab_members(g) ==
  [n |-> g.n, is_last |-> (g.q = 0), first_it |-> g.first_it, L |-> g.L,
   W |-> g.W, p |-> g.p, q |-> g.q, h1 |-> g.h1, h2 |-> g.h2, r |-> g.r,
   c |-> g.c]

ulab_next_end(g) ==
  ulab_members(IF g.fixit THEN ulab_fixit(g)
               ELSE ulab_no_fixit_h2(ulab_no_fixit_p(g)))

\* next() after the simple cases and the first call
ulab_next_run(k) == ulab_next_end(ulab_next_loop(k, k.oldp))

\* next() without the case of the first call
free_ulab_trees_next_no_first_it(g) ==
  IF g.n <= 2 THEN [g EXCEPT !.is_last = TRUE]
  ELSE ulab_next_run(ulab_next_needs(ulab_after_first_if(g, ulab_next_first_if(g))))

\* free_ulab_trees::next()
free_ulab_trees_next(g) ==
  IF g.n <= 2 THEN [g EXCEPT !.is_last = TRUE]
  ELSE IF g.first_it THEN [g EXCEPT !.first_it = FALSE]
  ELSE ulab_next_run(ulab_next_needs(ulab_after_first_if(g, ulab_next_first_if(g))))

\* utils::level_sequence_to_tree(L, n): the parent of vertex i is the last
\* vertex before i one level above it; the tree as a head array
RECURSIVE last_at_level(_, _, _)
last_at_level(L, j, lev) ==
  IF j < 1 THEN NoParent
  ELSE IF L[j] = lev THEN j - 1 ELSE last_at_level(L, j - 1, lev)

level_sequence_to_tree(L, n) == [i \in 1..n |-> last_at_level(L, i - 1, L[i] - 1)]

\* free_ulab_trees::get_tree()
free_ulab_trees_get_tree(g) ==
  IF g.n <= 1 THEN Repeat(NoParent, g.n)
  ELSE IF g.n = 2 THEN <<NoParent, 0>>
  ELSE level_sequence_to_tree(g.L, g.n)

\* ulab = [g, pc, taken, inits]: the enumerator, the position of the driver in
\* "while (has_next()) { next(); get_tree(); }", the trees taken by the loop
\* (as head arrays) and the number of calls of init after construction
InitUlabFree ==
  /\ tree = <<>> /\ build = "release" /\ result = NoResult
  /\ graph = ugraph_init(0) /\ last = NoCall
  /\ du = Unused /\ lens = Unused /\ gen = Unused
  /\ \E n \in 1..MaxUlabNodes :
        ulab = [g |-> free_ulab_trees_init(n), pc |-> "has_next", taken |-> <<>>,
                inits |-> 0]
  /\ bfs = Unused /\ reader = Unused
  /\ samp = Unused /\ svec = Unused /\ sorter = Unused /\ rdt = Unused /\ fn = Unused

\* has_next() returned true; next()
UlabFreeNext ==
  /\ ulab.pc = "has_next" /\ free_ulab_trees_has_next(ulab.g)
  /\ ulab' = [ulab EXCEPT !.g = free_ulab_trees_next(ulab.g), !.pc = "get_tree"]
  /\ UNCHANGED <<solver_and_graph_vars, du, lens, gen, bfs, reader,
               sampler_and_container_vars>>

\* get_tree() in the loop
UlabFreeGetTree ==
  /\ ulab.pc = "get_tree"
  /\ ulab' = [ulab EXCEPT !.taken = Append(ulab.taken, free_ulab_trees_get_tree(ulab.g)),
                          !.pc = "has_next"]
  /\ UNCHANGED <<solver_and_graph_vars, du, lens, gen, bfs, reader,
               sampler_and_container_vars>>

\* init(n) on an enumerator in use, after which the loop starts again
UlabFreeInit ==
  /\ ulab.pc = "has_next" /\ ulab.inits < MaxUlabInits
  /\ \E n \in 1..MaxUlabNodes :
        ulab' = [g |-> free_ulab_trees_init(n), pc |-> "has_next", taken |-> <<>>,
                 inits |-> ulab.inits + 1]
  /\ UNCHANGED <<solver_and_graph_vars, du, lens, gen, bfs, reader,
               sampler_and_container_vars>>

NextUlabFree == UlabFreeNext \/ UlabFreeGetTree \/ UlabFreeInit

SpecUlabFree == InitUlabFree /\ [][NextUlabFree]_vars

\* the shape of the tree t hanging from v, reached from par: the shapes of
\* the subtrees of v, each with the number of times it occurs
RECURSIVE RootedShape(_, _, _)
RootedShape(t, v, par) ==
  LET kids == SeqToSet(At(t.adj, v)) \ {par}
  IN {<<RootedShape(t, w, v),
        Cardinality({x \in kids : RootedShape(t, x, v) = RootedShape(t, w, v)})>> :
        w \in kids}

\* the shape of the free tree of the head array h: its shapes from all roots.
\* Two trees are isomorphic exactly when their shapes are equal.
FreeShape(h) == {RootedShape(free_tree_of(h), v, NoParent) : v \in 0..(Len(h) - 1)}

\* the head arrays of n >= 1 vertices in which the parents never decrease:
\* every tree has such a labelling, its vertices numbered breadth-first
RECURSIVE BreadthFirstHeadArrays(_)
BreadthFirstHeadArrays(n) ==
  IF n = 1 THEN {<<NoParent>>}
  ELSE IF n = 2 THEN {<<NoParent, 0>>}
  ELSE UNION {{Append(h, q) : q \in h[n - 1]..(n - 2)} :
                h \in BreadthFirstHeadArrays(n - 1)}

\* the isomorphism classes of the free trees on n vertices
FreeShapes(n) == {FreeShape(h) : h \in BreadthFirstHeadArrays(n)}

\* the numbers of unlabelled free trees on 1, 2, ... vertices
NumUlabFreeTrees == <<1, 1, 1, 2, 3, 6, 11>>

\* C17: driven by "while has_next(): next(); get_tree()" the enumerator of
\* unlabelled free trees for n >= 1 emits pairwise non-isomorphic trees on n
\* vertices, one for every isomorphism class of free trees on n vertices
\* (1, 1, 1, 2, 3, 6, 11 trees for n = 1..7), after which has_next() is
\* false.
UlabFreeEmitsEveryClassOnce ==
  LET n == ulab.g.n
      shapes == {FreeShape(ulab.taken[i]) : i \in 1..Len(ulab.taken)}
      ended == ulab.pc = "has_next" /\ ~free_ulab_trees_has_next(ulab.g)
  IN /\ \A i \in 1..Len(ulab.taken) :
           Len(ulab.taken[i]) = n /\ IsTreeInput(ulab.taken[i])
     /\ Cardinality(shapes) = Len(ulab.taken)
     /\ ended => shapes = FreeShapes(n)
     /\ (ended /\ n <= Len(NumUlabFreeTrees)) => Len(ulab.taken) = NumUlabFreeTrees[n]

\* the loop over the trees of seven vertices has ended with eleven trees
UlabFreeEmitsEveryClassOnce_Witness ==
  /\ ulab.g.n = 7 /\ ulab.pc = "has_next" /\ ~free_ulab_trees_has_next(ulab.g)
  /\ Len(ulab.taken) = 11
  /\ {FreeShape(ulab.taken[i]) : i \in 1..Len(ulab.taken)} = FreeShapes(7)

\* ---------------------------------------------------------------------------
\* Graph traversals: detail::BFS and utils::GR_TR (queue or stack)
\* ---------------------------------------------------------------------------

\* the largest number of vertices of a traversed graph
MaxBfsNodes == 3

\* the largest number of calls of start_at on one traversal object
MaxStarts == 2

\* the entries of the adjacency list s that are larger (up = TRUE) or smaller
\* than u
one_sided(s, u, up) ==
  LET Keep(v) == IF up THEN v > u ELSE v < u
  IN SelectSeq(s, Keep)

\* a directed graph over the edges of the undirected graph g: every edge
\* {u, v}, u < v, becomes the arc u -> v ("up"), the arc v -> u ("down") or
\* both arcs ("both")
oriented(g, dir) ==
  [kind |-> "dgraph", n |-> g.n,
   out |-> [u \in 1..g.n |->
              IF dir = "both" THEN g.adj[u] ELSE one_sided(g.adj[u], u - 1, dir = "up")],
   in |-> [u \in 1..g.n |->
              IF dir = "both" THEN g.adj[u] ELSE one_sided(g.adj[u], u - 1, dir = "down")]]

\* the graphs handed to the constructor of a traversal
TraversedGraphs ==
  LET gs == SimpleGraphs(MaxBfsNodes)
  IN {[kind |-> "ugraph", n |-> g.n, out |-> g.adj, in |-> g.adj] : g \in gs}
       \cup {oriented(g, dir) : g \in gs, dir \in {"up", "down", "both"}}

\* one entry of the record of a traversal: a call of a callback ("proc_cur",
\* "term" with its result in flag, "proc_neigh" with ltr in flag), a push of t
\* ("push"), or the start of the processing of the neighbours of s ("expand");
\* vis and pvn are m_vis and m_proc_vis_neighs at that moment
Event(ev, s, t, flag, b) ==
  [ev |-> ev, s |-> s, t |-> t, flag |-> flag, vis |-> b.vis, pvn |-> b.pvn]

\* reset(): nothing visited, empty structure, both options off, default
\* callbacks (terminate nowhere, add every node); the record of the last
\* traversal is dropped
bfs_reset(b) ==
  [b EXCEPT !.vis = {}, !.X = <<>>, !.rev = FALSE, !.pvn = FALSE,
            !.T = {}, !.A = {}, !.log = <<>>]

\* the constructor: m_G(g), m_vis(n), reset()
bfs_init(impl, g) ==
  bfs_reset([impl |-> impl, G |-> g, X |-> <<>>, vis |-> {}, pvn |-> FALSE,
             rev |-> FALSE, T |-> {}, A |-> {}, log |-> <<>>])

\* next_node(): the front of the queue, the top of the stack
next_node(b) == IF b.impl = "GR_TR_stack" THEN b.X[Len(b.X)] ELSE Head(b.X)

\* m_queue.pop() / m_X.pop()
pop(b) ==
  IF b.impl = "GR_TR_stack" THEN SubSeq(b.X, 1, Len(b.X) - 1) ELSE Tail(b.X)

\* deal_with_neighbour(s, t, ltr), calling m_proc_neigh whatever the option
\* and whatever m_vis[t]
deal_with_neighbour_always(b, s, t, ltr) ==
  LET called == [b EXCEPT !.log = Append(@, Event("proc_neigh", s, t, ltr, b))]
  IN IF t \notin b.vis /\ t \notin b.A
     THEN [called EXCEPT !.log = Append(@, Event("push", s, t, TRUE, b)),
                         !.X = Append(@, t), !.vis = @ \cup {t}]
     ELSE called

\* deal_with_neighbour(s, t, ltr): m_proc_neigh is called when t is not visited
\* or visited neighbours are to be processed; t is pushed and marked when it
\* is not visited and m_add_node accepts it (A: the nodes m_add_node rejects)
deal_with_neighbour(b, s, t, ltr) ==
  LET called ==
        IF (t \in b.vis /\ b.pvn) \/ t \notin b.vis
        THEN [b EXCEPT !.log = Append(@, Event("proc_neigh", s, t, ltr, b))]
        ELSE b
  IN IF t \notin b.vis /\ t \notin b.A
     THEN [called EXCEPT !.log = Append(@, Event("push", s, t, TRUE, b)),
                         !.X = Append(@, t), !.vis = @ \cup {t}]
     ELSE called

\* the neighbours that process_neighbours(s) hands to deal_with_neighbour, in
\* order, each with its flag ltr: the neighbours of s in an undirected graph;
\* the out-neighbours and, with reversed edges in use, the in-neighbours in a
\* directed graph
neighbourhood(b, s) ==
  LET out == [i \in 1..Len(At(b.G.out, s)) |-> <<At(b.G.out, s)[i], TRUE>>]
      in == [i \in 1..Len(At(b.G.in, s)) |-> <<At(b.G.in, s)[i], FALSE>>]
  IN IF b.G.kind = "dgraph" /\ b.rev THEN out \o in ELSE out

RECURSIVE deal_with_neighbours(_, _, _, _)
\* the loops of process_neighbours(s) from the i-th entry of Nv on
deal_with_neighbours(b, s, Nv, i) ==
  IF i > Len(Nv) THEN b
  ELSE After(b, deal_with_neighbours(deal_with_neighbour(b, s, Nv[i][1], Nv[i][2]),
                                     s, Nv, i + 1))

\* process_neighbours(s)
process_neighbours(b, s) ==
  deal_with_neighbours([b EXCEPT !.log = Append(@, Event("expand", s, s, TRUE, b))],
                       s, neighbourhood(b, s), 1)

\* one iteration of the loop of do_traversal up to the test of m_term, with
\* the test of m_term moved before the call of m_proc_cur
traversal_head_term_first(b, s) ==
  LET popped == [b EXCEPT !.X = pop(b)]
      tested == [popped EXCEPT !.log = Append(@, Event("term", s, s, s \in b.T, popped))]
  IN [tested EXCEPT !.log = Append(@, Event("proc_cur", s, s, TRUE, tested))]

\* one iteration of the loop of do_traversal up to the test of m_term:
\* s = next_node(), pop, m_proc_cur(s), m_term(s) (T: the nodes at which
\* m_term returns true)
traversal_head(b, s) ==
  LET popped == [b EXCEPT !.X = pop(b)]
      processed == [popped EXCEPT !.log = Append(@, Event("proc_cur", s, s, TRUE, popped))]
  IN [processed EXCEPT !.log = Append(@, Event("term", s, s, s \in b.T, processed))]

RECURSIVE do_traversal_term_first(_)
\* do_traversal() with traversal_head_term_first
do_traversal_term_first(b) ==
  IF b.X = <<>> THEN b
  ELSE IF next_node(b) \in b.T THEN traversal_head_term_first(b, next_node(b))
  ELSE After(b, do_traversal_term_first(
                  process_neighbours(traversal_head_term_first(b, next_node(b)),
                                     next_node(b))))

RECURSIVE do_traversal(_)
\* do_traversal(): while the structure is not empty, process the next node,
\* break if m_term says so, otherwise process its neighbours
do_traversal(b) ==
  IF b.X = <<>> THEN b
  ELSE IF next_node(b) \in b.T THEN traversal_head(b, next_node(b))
  ELSE After(b, do_traversal(process_neighbours(traversal_head(b, next_node(b)),
                                                next_node(b))))

RECURSIVE push_sources_unmarked(_, _, _)
\* the loop of start_at(sources) without "m_vis[s] = 1"
push_sources_unmarked(b, sources, i) ==
  IF i > Len(sources) THEN b
  ELSE push_sources_unmarked([b EXCEPT !.X = Append(@, sources[i])], sources, i + 1)

RECURSIVE push_sources(_, _, _)
\* the loop of start_at(sources): push and mark every source
push_sources(b, sources, i) ==
  IF i > Len(sources) THEN b
  ELSE push_sources([b EXCEPT !.X = Append(@, sources[i]),
                              !.vis = @ \cup {sources[i]}], sources, i + 1)

\* start_at(source); the record of the traversal starts empty
start_at(b, source) ==
  do_traversal([b EXCEPT !.X = Append(@, source), !.vis = @ \cup {source},
                         !.log = <<>>])

\* start_at(sources)
start_at_sources(b, sources) ==
  do_traversal(push_sources([b EXCEPT !.log = <<>>], sources, 1))

\* bfs = [b, starts, op, src, fresh]: the traversal object, the number of calls
\* of start_at so far and the last operation on the object: "reset" (also the
\* last step of the constructor), "set" (a setter) or "start_at"; after
\* start_at, src are the sources handed over and fresh tells that no node was
\* visited when it was called. The callbacks and options are set before a
\* traversal is started.
InitBFS ==
  /\ tree = <<>> /\ build = "release" /\ result = NoResult
  /\ graph = ugraph_init(0) /\ last = NoCall
  /\ du = Unused /\ lens = Unused /\ gen = Unused /\ ulab = Unused
  /\ \E impl \in {"BFS", "GR_TR_queue", "GR_TR_stack"}, g \in TraversedGraphs :
        bfs = [b |-> bfs_init(impl, g), starts |-> 0, op |-> "reset",
               src |-> <<>>, fresh |-> FALSE]
  /\ reader = Unused
  /\ samp = Unused /\ svec = Unused /\ sorter = Unused /\ rdt = Unused /\ fn = Unused

\* set_process_visited_neighbours(v)
BfsSetProcessVisitedNeighbours ==
  /\ bfs.op # "start_at"
  /\ \E v \in BOOLEAN :
        bfs' = [bfs EXCEPT !.b.pvn = v, !.op = "set"]
  /\ UNCHANGED <<solver_and_graph_vars, du, lens, gen, ulab, reader,
               sampler_and_container_vars>>

\* set_use_rev_edges(use)
BfsSetUseRevEdges ==
  /\ bfs.op # "start_at"
  /\ \E use \in BOOLEAN :
        bfs' = [bfs EXCEPT !.b.rev = use, !.op = "set"]
  /\ UNCHANGED <<solver_and_graph_vars, du, lens, gen, ulab, reader,
               sampler_and_container_vars>>

\* set_terminate(f), f true at no node or at the node u only
BfsSetTerminate ==
  /\ bfs.op # "start_at"
  /\ \E T \in {{}} \cup {{u} : u \in Nodes(bfs.b.G)} :
        bfs' = [bfs EXCEPT !.b.T = T, !.op = "set"]
  /\ UNCHANGED <<solver_and_graph_vars, du, lens, gen, ulab, reader,
               sampler_and_container_vars>>

\* set_node_add(f), f false at no node or at the node u only
BfsSetNodeAdd ==
  /\ bfs.op # "start_at"
  /\ \E A \in {{}} \cup {{u} : u \in Nodes(bfs.b.G)} :
        bfs' = [bfs EXCEPT !.b.A = A, !.op = "set"]
  /\ UNCHANGED <<solver_and_graph_vars, du, lens, gen, ulab, reader,
               sampler_and_container_vars>>

\* reset()
BfsReset ==
  /\ bfs' = [bfs EXCEPT !.b = bfs_reset(bfs.b), !.op = "reset",
                         !.src = <<>>, !.fresh = FALSE]
  /\ UNCHANGED <<solver_and_graph_vars, du, lens, gen, ulab, reader,
               sampler_and_container_vars>>

\* start_at(source)
BfsStartAt ==
  /\ bfs.starts < MaxStarts
  /\ \E source \in Nodes(bfs.b.G) :
        bfs' = [b |-> start_at(bfs.b, source), starts |-> bfs.starts + 1,
                op |-> "start_at", src |-> <<source>>,
                fresh |-> bfs.b.vis = {}]
  /\ UNCHANGED <<solver_and_graph_vars, du, lens, gen, ulab, reader,
               sampler_and_container_vars>>

\* start_at(sources) on an object not yet used since its last reset, the
\* sources being a set of nodes in ascending order
BfsStartAtSources ==
  /\ bfs.starts < MaxStarts /\ bfs.op # "start_at"
  /\ \E sources \in Subsequences(Range(0, bfs.b.G.n - 1)) :
        bfs' = [b |-> start_at_sources(bfs.b, sources), starts |-> bfs.starts + 1,
                op |-> "start_at", src |-> sources,
                fresh |-> bfs.b.vis = {}]
  /\ UNCHANGED <<solver_and_graph_vars, du, lens, gen, ulab, reader,
               sampler_and_container_vars>>

NextBFS ==
  \/ BfsSetProcessVisitedNeighbours \/ BfsSetUseRevEdges \/ BfsSetTerminate
  \/ BfsSetNodeAdd \/ BfsReset \/ BfsStartAt \/ BfsStartAtSources

SpecBFS == InitBFS /\ [][NextBFS]_vars

\* the record of the last traversal
TraversalLog == IF bfs.op = "start_at" THEN bfs.b.log ELSE <<>>

\* C18: in every step of a traversal process_current(u) is called, then
\* should_terminate(u) is evaluated; when it returns true the traversal stops
\* at once: no neighbour of u is processed or pushed and no further vertex is
\* processed.
TerminationIsCheckedAfterProcessing ==
  LET log == TraversalLog
  IN \A i \in 1..Len(log) :
       /\ log[i].ev = "term" =>
            /\ i > 1 /\ log[i - 1].ev = "proc_cur" /\ log[i - 1].s = log[i].s
            /\ log[i].flag => i = Len(log)
            /\ ~log[i].flag => (i < Len(log) /\ log[i + 1].ev = "expand"
                                  /\ log[i + 1].s = log[i].s)
       /\ log[i].ev = "proc_cur" =>
            i < Len(log) /\ log[i + 1].ev = "term" /\ log[i + 1].s = log[i].s
       /\ log[i].ev = "expand" => i > 1 /\ log[i - 1].ev = "term" /\ ~log[i - 1].flag

\* a traversal was stopped by should_terminate at a vertex that has an
\* unvisited neighbour while another vertex was still waiting
TerminationIsCheckedAfterProcessing_Witness ==
  LET log == TraversalLog
  IN /\ Len(log) >= 2
     /\ log[Len(log)].ev = "term" /\ log[Len(log)].flag
     /\ log[Len(log) - 1].ev = "proc_cur"
     /\ bfs.b.X # <<>>
     /\ \E k \in 1..Len(neighbourhood(bfs.b, log[Len(log)].s)) :
           neighbourhood(bfs.b, log[Len(log)].s)[k][1] \notin bfs.b.vis

\* the index of the last "expand" entry of log at or before i
expansion_of(log, i) ==
  CHOOSE e \in 1..i :
    log[e].ev = "expand" /\ \A k \in (e + 1)..i : log[k].ev # "expand"

\* the entries of log after the "expand" entry e that belong to it
expansion_block(log, e) ==
  {k \in (e + 1)..Len(log) :
     log[k].ev \in {"proc_neigh", "push"} /\ expansion_of(log, k) = e}

\* C19: with the option process-already-visited-neighbours off (the default,
\* restored by reset()) process_neighbour(u, v) is called only for neighbours v
\* not yet visited when u is expanded; with the option on it is called for
\* every neighbour of every expanded vertex; a vertex is pushed only if it was
\* not yet visited.
VisitedNeighboursFollowTheOption ==
  LET log == TraversalLog
  IN /\ bfs.op = "reset" => ~bfs.b.pvn
     /\ \A i \in 1..Len(log) :
          /\ log[i].ev = "proc_neigh" =>
               /\ log[i].s = log[expansion_of(log, i)].s
               /\ <<log[i].t, log[i].flag>>
                    \in {neighbourhood(bfs.b, log[i].s)[k] :
                           k \in 1..Len(neighbourhood(bfs.b, log[i].s))}
               /\ ~log[i].pvn => log[i].t \notin log[expansion_of(log, i)].vis
          /\ (log[i].ev = "expand" /\ log[i].pvn) =>
               LET Nv == neighbourhood(bfs.b, log[i].s)
                   calls == {k \in expansion_block(log, i) : log[k].ev = "proc_neigh"}
               IN /\ Cardinality(calls) = Len(Nv)
                  /\ \A k \in 1..Len(Nv) :
                       \E c \in calls : log[c].t = Nv[k][1] /\ log[c].flag = Nv[k][2]
          /\ log[i].ev = "push" =>
               /\ log[i].t \notin log[i].vis
               /\ log[i].t \in bfs.b.vis

\* a traversal with the option on has called process_neighbour for a visited
\* neighbour and has not pushed it
VisitedNeighboursFollowTheOption_Witness ==
  LET log == TraversalLog
  IN \E i \in 1..Len(log) :
       /\ log[i].ev = "proc_neigh" /\ log[i].pvn /\ log[i].t \in log[i].vis
       /\ \A k \in expansion_block(log, expansion_of(log, i)) :
            ~(log[k].ev = "push" /\ log[k].t = log[i].t)

RECURSIVE ReachableFrom(_, _)
\* the nodes that a path of the arcs followed by the traversal b joins to a
\* node of S
ReachableFrom(b, S) ==
  LET N == S \cup UNION {{neighbourhood(b, s)[k][1] :
                             k \in 1..Len(neighbourhood(b, s))} : s \in S}
  IN IF N = S THEN S ELSE ReachableFrom(b, N)

\* the positions of the record of the last traversal with event ev on node u
\* (the node processed, or the node pushed)
EventsOn(ev, u) ==
  {i \in 1..Len(TraversalLog) :
     /\ TraversalLog[i].ev = ev
     /\ (IF ev = "push" THEN TraversalLog[i].t ELSE TraversalLog[i].s) = u}

\* C26: in a traversal started on a freshly reset object from one source or
\* from distinct sources, with the default callbacks (every node added, no
\* termination), process_current is called once for every node reachable from
\* the sources and for no other node, and no node enters the structure twice.
EveryReachableNodeIsProcessedOnce ==
  (bfs.op = "start_at" /\ bfs.fresh /\ bfs.b.A = {} /\ bfs.b.T = {}) =>
     LET R == ReachableFrom(bfs.b, SeqToSet(bfs.src))
     IN /\ \A u \in Nodes(bfs.b.G) :
             /\ Cardinality(EventsOn("proc_cur", u)) = (IF u \in R THEN 1 ELSE 0)
             /\ Cardinality(EventsOn("push", u))
                  = (IF u \in R \ SeqToSet(bfs.src) THEN 1 ELSE 0)
        /\ bfs.b.vis = R /\ bfs.b.X = <<>>

\* a traversal from two sources of a graph on three nodes reached the third
\* node, which is a neighbour of both
EveryReachableNodeIsProcessedOnce_Witness ==
  /\ bfs.op = "start_at" /\ bfs.fresh /\ bfs.b.A = {} /\ bfs.b.T = {}
  /\ Len(bfs.src) = 2 /\ bfs.b.vis = Nodes(bfs.b.G) /\ bfs.b.G.n = 3
  /\ \A i \in 1..2 :
        \E k \in 1..Len(neighbourhood(bfs.b, bfs.src[i])) :
           neighbourhood(bfs.b, bfs.src[i])[k][1] \notin SeqToSet(bfs.src)

\* ---------------------------------------------------------------------------
\* io::treebank_reader
\* ---------------------------------------------------------------------------

\* the largest number of lines of a treebank file
MaxFileLines == 3

\* the largest number of calls of init on one reader
MaxReaderInits == 2

\* the line feed and the carriage return
LF == "LF"

CR == "CR"

\* '0' <= c and c <= '9'
IsDigit(c) == c \in {"0", "1"}

\* the lines of a treebank: the empty line, the empty line of a file whose
\* lines end in CR LF, the tree of one node, a tree of two nodes
TreebankLines == {<<>>, <<CR>>, <<"0">>, <<"0", " ", "1">>}

RECURSIVE join_lines(_)
\* the text of the lines ls, each ended by a line feed
join_lines(ls) ==
  IF ls = <<>> THEN <<>> ELSE Head(ls) \o <<LF>> \o join_lines(Tail(ls))

\* the texts of the treebank files: up to MaxFileLines lines, the last one
\* with or without its line feed
TreebankFiles ==
  LET whole == {join_lines(ls) :
                  ls \in UNION {[1..k -> TreebankLines] : k \in 0..MaxFileLines}}
  IN whole \cup {SubSeq(t, 1, Len(t) - 1) : t \in whole \ {<<>>}}

RECURSIVE line_end(_, _)
\* the index of the first line feed of text at or after i, Len(text) + 1 if
\* there is none
line_end(text, i) ==
  IF i > Len(text) \/ text[i] = LF THEN i ELSE line_end(text, i + 1)

RECURSIVE num_tree_lines(_, _)
\* the number of lines of text from index i on that hold a head vector
num_tree_lines(text, i) ==
  IF i > Len(text) THEN 0
  ELSE (IF \E k \in i..(line_end(text, i) - 1) : IsDigit(text[k]) THEN 1 ELSE 0)
         + num_tree_lines(text, line_end(text, i) + 1)

\* m_treebank.open(file) on an existing file: nothing read, no state bit set
ifstream_open(text) ==
  [text |-> text, pos |-> 0, eofbit |-> FALSE, failbit |-> FALSE]

\* std::getline(stream, line): <<the stream, the line>> afterwards. On a
\* stream that is not good the line is left alone and failbit is set;
\* otherwise characters are taken up to and without the line feed; reaching
\* the end of the file sets eofbit, and failbit too when nothing was taken
getline(stream, line) ==
  IF stream.eofbit \/ stream.failbit
  THEN <<[stream EXCEPT !.failbit = TRUE], line>>
  ELSE IF line_end(stream.text, stream.pos + 1) <= Len(stream.text)
  THEN <<[stream EXCEPT !.pos = line_end(stream.text, stream.pos + 1)],
         SubSeq(stream.text, stream.pos + 1, line_end(stream.text, stream.pos + 1) - 1)>>
  ELSE <<[stream EXCEPT !.pos = Len(stream.text), !.eofbit = TRUE,
                        !.failbit = (stream.pos = Len(stream.text))],
         SubSeq(stream.text, stream.pos + 1, Len(stream.text))>>

\* m_treebank.peek(): at the end of the file eofbit is set
peek(stream) ==
  IF stream.eofbit \/ stream.failbit THEN [stream EXCEPT !.failbit = TRUE]
  ELSE IF stream.pos = Len(stream.text) THEN [stream EXCEPT !.eofbit = TRUE]
  ELSE stream

\* treebank_reader::init(file, lang) on a file that can be opened
treebank_reader_init(r, text) ==
  [r EXCEPT !.m_treebank = ifstream_open(text), !.m_num_trees = 0,
            !.err = "no_error"]

\* treebank_reader::has_tree()
has_tree(r) == ~r.m_treebank.eofbit

\* the rest of next_tree() once getline has returned got = <<stream, line>>
next_tree_after_getline(r, got) ==
  IF Len(got[2]) = 1 /\ ~IsDigit(got[2][1])
  THEN [r EXCEPT !.m_treebank = got[1], !.m_file_line = got[2],
                 !.err = "empty_line"]
  ELSE [r EXCEPT !.m_treebank = peek(got[1]), !.m_file_line = got[2],
                 !.m_num_trees = @ + 1, !.err = "no_error"]

\* treebank_reader::next_tree()
next_tree(r) == next_tree_after_getline(r, getline(r.m_treebank, r.m_file_line))

\* treebank_reader::get_num_trees()
get_num_trees(r) == r.m_num_trees

\* reader = [r, file, pc, inits]: the reader, the text of the file it was
\* initialised with, the position of the driver in
\* "init(file); while (has_tree()) { next_tree(); }" and the number of calls
\* of init. A new reader has no file; its m_num_trees is 0 with the class of
\* treebank_reader.hpp and indeterminate with the one of head_vector.cpp.
InitReader ==
  /\ tree = <<>> /\ build = "release" /\ result = NoResult
  /\ graph = ugraph_init(0) /\ last = NoCall
  /\ du = Unused /\ lens = Unused /\ gen = Unused /\ ulab = Unused /\ bfs = Unused
  /\ samp = Unused /\ svec = Unused /\ sorter = Unused /\ rdt = Unused /\ fn = Unused
  /\ \E junk \in {0, 1} :
        reader = [r |-> [m_treebank |-> ifstream_open(<<>>), m_file_line |-> <<>>,
                         m_num_trees |-> junk, err |-> "no_error"],
                  file |-> <<>>, pc |-> "init", inits |-> 0]

\* init(file), on a new reader or after the loop has ended
ReaderInit ==
  /\ reader.pc \in {"init", "done"} /\ reader.inits < MaxReaderInits
  /\ \E text \in TreebankFiles :
        reader' = [r |-> treebank_reader_init(reader.r, text), file |-> text,
                   pc |-> "loop", inits |-> reader.inits + 1]
  /\ UNCHANGED <<solver_and_graph_vars, du, lens, gen, ulab, bfs,
               sampler_and_container_vars>>

\* has_tree() returned true; next_tree()
ReaderNextTree ==
  /\ reader.pc = "loop" /\ has_tree(reader.r)
  /\ reader' = [reader EXCEPT !.r = next_tree(reader.r)]
  /\ UNCHANGED <<solver_and_graph_vars, du, lens, gen, ulab, bfs,
               sampler_and_container_vars>>

\* has_tree() returned false: the loop ends
ReaderLoopEnds ==
  /\ reader.pc = "loop" /\ ~has_tree(reader.r)
  /\ reader' = [reader EXCEPT !.pc = "done"]
  /\ UNCHANGED <<solver_and_graph_vars, du, lens, gen, ulab, bfs,
               sampler_and_container_vars>>

NextReader == ReaderInit \/ ReaderNextTree \/ ReaderLoopEnds

SpecReader == InitReader /\ [][NextReader]_vars

\* C20: when the loop "init; while has_tree(): next_tree()" has ended,
\* get_num_trees() is the number of tree lines of the file, whatever mix of
\* tree lines and empty lines the file holds.
NumTreesIsExactAtEnd ==
  reader.pc = "done" => get_num_trees(reader.r) = num_tree_lines(reader.file, 1)

\* the stream of r stands before a line that holds no head vector: an empty
\* line or a lone carriage return
next_line_is_empty(r) ==
  /\ ~r.m_treebank.eofbit /\ ~r.m_treebank.failbit
  /\ r.m_treebank.pos < Len(r.m_treebank.text)
  /\ \A k \in (r.m_treebank.pos + 1)..(line_end(r.m_treebank.text, r.m_treebank.pos + 1) - 1) :
        ~IsDigit(r.m_treebank.text[k])

\* C21: when the next line of the treebank is empty, next_tree() returns the
\* empty-line signal, not the no-error result, and the stream stands right
\* after that line, in a state from which the following lines can be read.
EmptyLineIsSignalled ==
  [][(/\ reader.pc = "loop" /\ has_tree(reader.r) /\ next_line_is_empty(reader.r)
      /\ reader'.pc = "loop" /\ reader'.file = reader.file
      /\ reader'.inits = reader.inits /\ reader' # reader)
       => /\ reader'.r.err = "empty_line"
          /\ ~reader'.r.m_treebank.failbit
          /\ reader'.r.m_treebank.pos
               >= line_end(reader.r.m_treebank.text, reader.r.m_treebank.pos + 1) - 1]_vars

\* ---------------------------------------------------------------------------
\* generate::_rand_ulab_rooted_trees
\* ---------------------------------------------------------------------------

\* numeric::integer holds naturals of any size: a value is the sequence of its
\* digits in base LimbBase, lowest first, without leading zeros (0 is <<>>)
LimbBase == 10000

RECURSIVE BigNorm(_)
\* the digits a without leading zeros
BigNorm(a) ==
  IF a = <<>> \/ a[Len(a)] # 0 THEN a ELSE BigNorm(SubSeq(a, 1, Len(a) - 1))

RECURSIVE Big(_)
\* the integer of the machine number x
Big(x) == IF x = 0 THEN <<>> ELSE <<x % LimbBase>> \o Big(x \div LimbBase)

RECURSIVE BigAddFrom(_, _, _, _)
\* the digits of a + b from position i on, with carry c
BigAddFrom(a, b, i, c) ==
  IF i > Len(a) /\ i > Len(b) THEN Big(c)
  ELSE LET x == (IF i <= Len(a) THEN a[i] ELSE 0) + (IF i <= Len(b) THEN b[i] ELSE 0) + c
       IN <<x % LimbBase>> \o BigAddFrom(a, b, i + 1, x \div LimbBase)

\* integer + integer
BigAdd(a, b) == BigAddFrom(a, b, 1, 0)

RECURSIVE BigMulSmallFrom(_, _, _, _)
\* the digits of a * m from position i on, with carry c
BigMulSmallFrom(a, m, i, c) ==
  IF i > Len(a) THEN Big(c)
  ELSE <<(a[i] * m + c) % LimbBase>>
         \o BigMulSmallFrom(a, m, i + 1, (a[i] * m + c) \div LimbBase)

\* integer * uint64_t, for m below 200000
BigMulSmall(a, m) == BigNorm(BigMulSmallFrom(a, m, 1, 0))

RECURSIVE BigMulFrom(_, _, _)
\* a * (the digits of b from position i on)
BigMulFrom(a, b, i) ==
  IF i > Len(b) THEN <<>>
  ELSE BigAdd(BigMulSmall(a, b[i]),
              LET rest == BigMulFrom(a, b, i + 1)
              IN IF rest = <<>> THEN <<>> ELSE <<0>> \o rest)

\* integer * integer
BigMul(a, b) == BigMulFrom(a, b, 1)

RECURSIVE BigDivSmallFrom(_, _, _, _)
\* the digits of the quotient of a by k from position i down to 1, highest
\* first, with remainder r carried in
BigDivSmallFrom(a, k, i, r) ==
  IF i < 1 THEN <<>>
  ELSE BigDivSmallFrom(a, k, i - 1, (r * LimbBase + a[i]) % k)
         \o <<(r * LimbBase + a[i]) \div k>>

\* integer /= uint64_t (truncating), for k below 200000
BigDivSmall(a, k) == BigNorm(BigDivSmallFrom(a, k, Len(a), 0))

RECURSIVE FromGroups(_)
\* the integer written as groups of four decimal digits, highest first
FromGroups(g) ==
  IF g = <<>> THEN <<>> ELSE FromGroups(Tail(g)) \o <<Head(g)>>

\* init_rn(): m_rn[0..30] from the OEIS (A000081)
init_rn ==
  <<Big(0), Big(1), Big(1), Big(2), Big(4), Big(9), Big(20), Big(48), Big(115),
    Big(286), Big(719), Big(1842), Big(4766), Big(12486), Big(32973), Big(87811),
    Big(235381), Big(634847), Big(1721159), Big(4688676), Big(12826228),
    Big(35221832), Big(97055181), Big(268282855), Big(743724984),
    FromGroups(<<20, 6717, 4645>>), FromGroups(<<57, 5963, 6510>>),
    FromGroups(<<160, 8373, 4329>>), FromGroups(<<450, 706, 6269>>),
    FromGroups(<<1261, 8655, 4308>>), FromGroups(<<3544, 2684, 7597>>)>>

RECURSIVE get_rn_while_j(_, _, _, _, _)
\* the inner while of get_rn on ijs = <<i, j, s>>: i and j advance, s gathers
\* m_rn[i] * td
get_rn_while_j(m_rn, k, d, td, ijs) ==
  IF ijs[2] <= k /\ ijs[1] > 0
  THEN get_rn_while_j(m_rn, k, d, td,
         <<ijs[1] - d, ijs[2] + 1,
           IF ijs[1] - d > 0 THEN BigAdd(ijs[3], BigMul(At(m_rn, ijs[1] - d), td))
           ELSE ijs[3]>>)
  ELSE ijs[3]

RECURSIVE get_rn_for_d(_, _, _)
\* the for loop of get_rn on ds = <<d, s>>, d up to k
get_rn_for_d(m_rn, k, ds) ==
  IF ds[1] > k THEN ds[2]
  ELSE get_rn_for_d(m_rn, k,
         <<ds[1] + 1,
           get_rn_while_j(m_rn, k, ds[1], BigMulSmall(At(m_rn, ds[1]), ds[1]),
                          <<k + 1, 1, ds[2]>>)>>)

RECURSIVE get_rn_while_k(_, _)
\* the outer while of get_rn on km = <<k, m_rn>>: one value pushed for every
\* k up to n + 1
get_rn_while_k(km, n) ==
  IF km[1] <= n + 1
  THEN get_rn_while_k(
         <<km[1] + 1,
           Append(km[2], BigDivSmall(get_rn_for_d(km[2], km[1], <<1, <<>>>>), km[1]))>>, n)
  ELSE km[2]

\* get_rn(n) with the loop started at k = m_rn.size() - 2 instead of
\* m_rn.size() - 1
get_rn_one_early(m_rn, n) ==
  IF Len(m_rn) >= n + 1 THEN m_rn ELSE get_rn_while_k(<<Len(m_rn) - 2, m_rn>>, n)

\* get_rn(n): the table m_rn afterwards; the value returned is m_rn[n]
get_rn(m_rn, n) ==
  IF Len(m_rn) >= n + 1 THEN m_rn ELSE get_rn_while_k(<<Len(m_rn) - 1, m_rn>>, n)

\* the largest number of vertices for which every choice of (j, d) is followed
MaxExhaustiveNodes == 6

\* the largest number of vertices of a sampler
MaxSampNodes == 32

RECURSIVE weighted_divisors(_, _, _, _)
\* the sum of d * t[d] over the divisors d of k with lo <= d <= hi
weighted_divisors(t, k, lo, hi) ==
  IF lo > hi THEN <<>>
  ELSE IF lo = hi THEN (IF k % lo = 0 THEN BigMulSmall(At(t, lo), lo) ELSE <<>>)
  ELSE BigAdd(weighted_divisors(t, k, lo, (lo + hi) \div 2),
              weighted_divisors(t, k, (lo + hi) \div 2 + 1, hi))

RECURSIVE rooted_trees_sum(_, _, _, _)
\* the sum over k = lo..hi of weighted_divisors(k) * t[n - k + 1]
rooted_trees_sum(t, n, lo, hi) ==
  IF lo > hi THEN <<>>
  ELSE IF lo = hi THEN BigMul(weighted_divisors(t, lo, 1, lo), At(t, n - lo + 1))
  ELSE BigAdd(rooted_trees_sum(t, n, lo, (lo + hi) \div 2),
              rooted_trees_sum(t, n, (lo + hi) \div 2 + 1, hi))

RECURSIVE NumRootedTreesFrom(_, _)
\* t = <<t_0, ..., t_m>> extended up to t_n: m * t_(m+1) is the sum over
\* k = 1..m of (sum over d dividing k of d * t_d) * t_(m-k+1)
NumRootedTreesFrom(t, n) ==
  IF Len(t) > n THEN t
  ELSE NumRootedTreesFrom(
         Append(t, BigDivSmall(rooted_trees_sum(t, Len(t) - 1, 1, Len(t) - 1),
                               Len(t) - 1)), n)

\* <<t_0, ..., t_n>>, the numbers of unlabelled rooted trees (A000081),
\* t_0 = 0 and t_1 = 1
NumRootedTrees(n) == NumRootedTreesFrom(<<Big(0), Big(1)>>, n)

\* t_0 .. t_(MaxSampNodes + 2)
A000081 == NumRootedTrees(MaxSampNodes + 2)

\* the numbers of vertices of the samplers: up to MaxExhaustiveNodes, and from
\* the first size outside the initial table up to MaxSampNodes
SampSizes == (0..MaxExhaustiveNodes) \cup (Len(init_rn)..MaxSampNodes)

\* the pairs (j, d) that choose_jd_from_T(n) can return: j >= 1, d >= 1 and
\* j * d < n, every one with positive weight. Above MaxExhaustiveNodes only
\* the draws that hang single vertices from a tree of at most
\* MaxExhaustiveNodes vertices are followed.
choose_jd_from_T(n) ==
  IF n <= MaxExhaustiveNodes
  THEN {jd \in (1..(n - 1)) \X (1..(n - 1)) : jd[1] * jd[2] < n}
  ELSE {<<n - 1, 1>>, <<n - MaxExhaustiveNodes, 1>>}

\* stands for the content of an entry of m_head_vector, or of m_n, that was
\* never written
Indeterminate == -1

\* m_head_vector[i] = x on st = [head, bad]; bad records an access outside the
\* array or a read of an entry never written
head_write(st, i, x) ==
  IF i >= 0 /\ i < Len(st.head) THEN [st EXCEPT !.head = Put(@, i, x)]
  ELSE [st EXCEPT !.bad = TRUE]

\* the value read by m_head_vector[i]
head_read(st, i) ==
  IF i >= 0 /\ i < Len(st.head) /\ st.head[i + 1] # Indeterminate
  THEN st.head[i + 1] ELSE 0

\* whether m_head_vector[i] reads a written entry of the array
head_read_ok(st, i) ==
  i >= 0 /\ i < Len(st.head) /\ st.head[i + 1] # Indeterminate

RECURSIVE copy_nodes(_, _, _, _)
\* the inner for of ranrut at x = [nt, cd, root_Tpp], for v up to end:
\* m_head_vector[v] = nt + m_head_vector[v - c*d] - root_Tpp for v < nt + d
copy_nodes(st, x, v, end) ==
  IF v >= end THEN st
  ELSE copy_nodes(
         [head_write(st, v, x.nt + head_read(st, v - x.cd) - x.root_Tpp)
            EXCEPT !.bad = @ \/ ~head_read_ok(st, v - x.cd)],
         x, v + 1, end)

RECURSIVE copy_subtrees_same_place(_, _, _, _)
\* the outer for of ranrut without "nt += d"
copy_subtrees_same_place(r, c, jd, roots) ==
  IF c >= jd[1] THEN r
  ELSE copy_subtrees_same_place(
         [st |-> copy_nodes(head_write(r.st, r.nt, roots[1]),
                            [nt |-> r.nt, cd |-> c * jd[2], root_Tpp |-> roots[2]],
                            r.nt + 1, r.nt + jd[2]),
          root |-> r.root, nt |-> r.nt],
         c + 1, jd, roots)

RECURSIVE copy_subtrees(_, _, _, _)
\* the outer for of ranrut on r = [st, root, nt], for the copies c..j-1 of T''
\* (jd = <<j, d>>, roots = <<root_Tp, root_Tpp>>): the root of the copy goes to
\* nt and points to root_Tp, the other nodes are copied, nt += d
copy_subtrees(r, c, jd, roots) ==
  IF c >= jd[1] THEN r
  ELSE copy_subtrees(
         [st |-> copy_nodes(head_write(r.st, r.nt, roots[1]),
                            [nt |-> r.nt, cd |-> c * jd[2], root_Tpp |-> roots[2]],
                            r.nt + 1, r.nt + jd[2]),
          root |-> r.root, nt |-> r.nt + jd[2]],
         c + 1, jd, roots)

RECURSIVE ranrut(_, _, _, _)
\* ranrut(n, lr, nt) on st = [head, bad]: the set of the possible
\* [st, root, nt], root and nt being the pair returned
ranrut(st, n, lr, nt) ==
  IF n = 0 THEN {[st |-> st, root |-> lr, nt |-> nt]}
  ELSE IF n = 1 THEN {[st |-> head_write(st, nt, lr), root |-> nt, nt |-> nt + 1]}
  ELSE IF n = 2
  THEN {[st |-> head_write(head_write(st, nt, lr), nt + 1, nt), root |-> nt,
         nt |-> nt + 2]}
  ELSE UNION {UNION {UNION {
         {copy_subtrees([st |-> Tpp.st, root |-> Tp.root, nt |-> Tpp.nt], 1, jd,
                        <<Tp.root, Tpp.root>>)} :
           Tpp \in ranrut(Tp.st, jd[2], Tp.root, Tp.nt)} :
           Tp \in ranrut(st, n - jd[1] * jd[2], lr, nt)} :
           jd \in choose_jd_from_T(n)}

\* no tree returned by the last call
NoSample == [n |-> 0, root |-> 0, E |-> {}, bad |-> FALSE]

\* the rooted tree built by get_tree() from the head vector: n vertices, root
\* 0 and an edge (m_head_vector[u], u) for every u in 1..n-1
tree_of_head_vector(n, st) ==
  [n |-> n, root |-> 0, E |-> {<<head_read(st, u), u>> : u \in 1..(n - 1)},
   bad |-> st.bad \/ \E u \in 1..(n - 1) : ~head_read_ok(st, u)]

\* get_tree() on the sampler g: the possible samplers afterwards, with the
\* tree returned, the pair returned by the top-level ranrut and the table
\* m_rn after the calls of get_rn made by choose_jd_from_T
rand_ulab_rooted_trees_get_tree(g) ==
  IF g.m_n <= 1
  THEN {[g EXCEPT !.tree = [n |-> g.m_n, root |-> 0, E |-> {}, bad |-> FALSE],
                  !.nt = g.m_n, !.asked = 0, !.returned = <<>>, !.op = "get_tree"]}
  ELSE {[g EXCEPT !.m_head_vector = r.st.head,
                  !.tree = tree_of_head_vector(g.m_n, r.st),
                  !.nt = r.nt,
                  !.m_rn = IF g.m_n >= 3 THEN get_rn(g.m_rn, g.m_n) ELSE g.m_rn,
                  !.asked = 0, !.returned = <<>>, !.op = "get_tree"] :
          r \in ranrut([head |-> g.m_head_vector, bad |-> FALSE], g.m_n, 0, 0)}

\* init(n, seed): m_n = n, the head vector resized, and for n > 1 get_rn(n)
rand_ulab_rooted_trees_init(g, n) ==
  [g EXCEPT !.m_n = n, !.m_head_vector = Repeat(Indeterminate, n),
            !.m_rn = IF n <= 1 THEN g.m_rn ELSE get_rn(g.m_rn, n),
            !.sized = TRUE, !.tree = NoSample, !.nt = 0, !.asked = 0,
            !.returned = <<>>, !.op = "init"]

\* clear(): the table back to init_rn(), the head vector emptied
rand_ulab_rooted_trees_clear(g) ==
  [g EXCEPT !.m_rn = init_rn, !.m_head_vector = <<>>, !.sized = FALSE,
            !.tree = NoSample, !.nt = 0, !.asked = 0, !.returned = <<>>,
            !.op = "clear"]

\* the sampler made by the empty constructor: init_rn() and nothing else;
\* sized tells that the head vector has m_n entries
rand_ulab_rooted_trees_new ==
  [m_n |-> Indeterminate, m_rn |-> init_rn, m_head_vector |-> <<>>, sized |-> FALSE,
   tree |-> NoSample, nt |-> 0, asked |-> 0, returned |-> <<>>, op |-> "constructor"]

\* the sampler g after get_rn(n), m_rn being the table that get_rn leaves; the
\* value returned is kept, the tree returned by an earlier call is not
rand_ulab_rooted_trees_get_rn(g, n, m_rn) ==
  [g EXCEPT !.m_rn = m_rn, !.asked = n, !.returned = At(m_rn, n),
            !.tree = NoSample, !.nt = 0, !.op = "get_rn"]

\* samp: the sampler after the empty constructor or after the constructor
\* with a number of vertices, which calls init_rn() and init(n, seed)
InitSamp ==
  /\ tree = <<>> /\ build = "release" /\ result = NoResult
  /\ graph = ugraph_init(0) /\ last = NoCall
  /\ du = Unused /\ lens = Unused /\ gen = Unused /\ ulab = Unused /\ bfs = Unused
  /\ reader = Unused
  /\ samp \in {rand_ulab_rooted_trees_new}
       \cup {[rand_ulab_rooted_trees_init(rand_ulab_rooted_trees_new, n)
                EXCEPT !.op = "constructor"] : n \in SampSizes}
  /\ svec = Unused /\ sorter = Unused /\ rdt = Unused /\ fn = Unused

\* init(n, seed)
SampInit ==
  /\ \E n \in SampSizes : samp' = rand_ulab_rooted_trees_init(samp, n)
  /\ UNCHANGED <<solver_and_graph_vars, du, lens, gen, ulab, bfs, reader, svec,
                 sorter, rdt, fn>>

\* get_tree() on a sampler whose head vector was sized by init
SampGetTree ==
  /\ samp.sized
  /\ samp' \in rand_ulab_rooted_trees_get_tree(samp)
  /\ UNCHANGED <<solver_and_graph_vars, du, lens, gen, ulab, bfs, reader, svec,
                 sorter, rdt, fn>>

\* clear()
SampClear ==
  /\ samp' = rand_ulab_rooted_trees_clear(samp)
  /\ UNCHANGED <<solver_and_graph_vars, du, lens, gen, ulab, bfs, reader, svec,
                 sorter, rdt, fn>>

\* get_rn(n)
SampGetRn ==
  /\ \E n \in SampSizes :
        samp' = rand_ulab_rooted_trees_get_rn(samp, n, get_rn(samp.m_rn, n))
  /\ UNCHANGED <<solver_and_graph_vars, du, lens, gen, ulab, bfs, reader, svec,
                 sorter, rdt, fn>>

NextSamp == SampInit \/ SampGetTree \/ SampClear \/ SampGetRn

SpecSamp == InitSamp /\ [][NextSamp]_vars

\* C22: whatever calls were made on the sampler, the table m_rn holds at
\* least the entries 0..30, every entry m_rn[i] is t_i, the number of
\* unlabelled rooted trees on i vertices, and get_rn(n) returns t_n, also for
\* n > 30.
TableHoldsRootedTreeNumbers ==
  /\ Len(samp.m_rn) >= 31
  /\ Len(samp.m_rn) <= Len(A000081)
  /\ \A i \in 1..Len(samp.m_rn) : samp.m_rn[i] = A000081[i]
  /\ samp.op = "get_rn" => samp.returned = At(A000081, samp.asked)

\* get_rn(n) was called for an n outside the initial table, which grew
TableHoldsRootedTreeNumbers_Witness ==
  /\ samp.op = "get_rn" /\ samp.asked > 30 /\ Len(samp.m_rn) > samp.asked
  /\ samp.returned = At(A000081, samp.asked)

\* C23: for n >= 2 and every sequence of choices (j, d), get_tree() writes
\* only to the positions 0..n-1 of the head vector, the top-level ranrut ends
\* with the next-storage index n, and the tree returned has n vertices, root
\* 0 and, for every vertex u >= 1, one parent head[u] < u.
SampledTreeIsRootedAtZero ==
  (samp.op = "get_tree" /\ samp.m_n >= 2) =>
     /\ ~samp.tree.bad
     /\ samp.nt = samp.m_n
     /\ Len(samp.m_head_vector) = samp.m_n
     /\ samp.tree.n = samp.m_n /\ samp.tree.root = 0
     /\ Cardinality(samp.tree.E) = samp.m_n - 1
     /\ \A u \in 1..(samp.m_n - 1) :
          /\ samp.m_head_vector[u + 1] \in 0..(u - 1)
          /\ {e \in samp.tree.E : e[2] = u} = {<<samp.m_head_vector[u + 1], u>>}

\* get_tree() returned the tree on five vertices made of a root with two
\* copies of the path on two vertices (j = 2, d = 2)
SampledTreeIsRootedAtZero_Witness ==
  /\ samp.op = "get_tree" /\ samp.m_n = 5
  /\ samp.m_head_vector = <<0, 0, 1, 0, 3>>
  /\ samp.tree.E = {<<0, 1>>, <<1, 2>>, <<0, 3>>, <<3, 4>>}

\* ------------------------------------------------------------------------
\* calculate_q and calculate_p on the orderings of the children of a vertex
\* ------------------------------------------------------------------------
\* the largest number of vertices of the tree whose ordering is handed over
MaxOrdNodes == 21

RECURSIVE SizeLists(_, _)
\* the non-increasing sequences of positive sizes of sum m, none above b
SizeLists(m, b) ==
  IF m = 0 THEN {<<>>}
  ELSE UNION {{<<s>> \o rest : rest \in SizeLists(m - s, s)} :
                s \in 1..(IF b < m THEN b ELSE m)}

\* the ordering with the sizes l: the pairs (size of the subtree, its root)
ordering_of(l) == [i \in 1..Len(l) |-> [first |-> l[i], second |-> i + 1]]

\* get_ordering on a vertex of degree >= 1 of a tree of n vertices: the sizes
\* of the subtrees add up to n - 1
Orderings(n) == {ordering_of(l) : l \in SizeLists(n - 1, n - 1)}

\* fn: the arguments of the call, the function called and the value returned
InitChungIndex ==
  /\ \E n \in 2..MaxOrdNodes :
        \E ord \in Orderings(n) :
           fn = [n |-> n, ord |-> ord, op |-> "none", res |-> NoValue]
  /\ tree = Unused /\ build = Unused /\ result = Unused /\ graph = Unused
  /\ last = Unused /\ du = Unused /\ lens = Unused /\ gen = Unused
  /\ ulab = Unused /\ bfs = Unused /\ reader = Unused /\ samp = Unused
  /\ svec = Unused /\ sorter = Unused /\ rdt = Unused

CallCalculateQ ==
  /\ fn.op = "none"
  /\ fn' = [fn EXCEPT !.op = "calculate_q", !.res = calculate_q(fn.n, fn.ord)]
  /\ UNCHANGED <<solver_and_graph_vars, du, lens, gen, ulab, bfs, reader,
                 samp, svec, sorter, rdt>>

CallCalculateP ==
  /\ fn.op = "none"
  /\ fn' = [fn EXCEPT !.op = "calculate_p", !.res = calculate_p(fn.n, fn.ord)]
  /\ UNCHANGED <<solver_and_graph_vars, du, lens, gen, ulab, bfs, reader,
                 samp, svec, sorter, rdt>>

NextChungIndex == CallCalculateQ \/ CallCalculateP

SpecChungIndex == InitChungIndex /\ [][NextChungIndex]_vars

\* t_i, the size of the i-th subtree of the ordering
SubtreeSize(ord, i) == ord[i + 1].first

\* the indices q in 0..floor(k/2) with t_2q > (t_0+2)/2 + (z_q+2)/2
ValidQ(n, ord) ==
  {q \in 0..((Len(ord) - 1) \div 2) :
     SubtreeSize(ord, 2 * q) >
        ((SubtreeSize(ord, 0) + 2) \div 2)
        + ((n - sum_sizes(ord, 0, 2 * q) + 2) \div 2)}

\* the indices p in 0..floor((k-1)/2) with t_2p+1 > (t_0+2)/2 + (y_p+2)/2
ValidP(n, ord) ==
  {p \in 0..((Len(ord) - 2) \div 2) :
     SubtreeSize(ord, 2 * p + 1) >
        ((SubtreeSize(ord, 0) + 2) \div 2)
        + ((n - sum_sizes(ord, 0, 2 * p + 1) + 2) \div 2)}

\* none when S is empty, the largest member of S otherwise
LargestOrNone(S) ==
  IF S = {} THEN NoValue ELSE Some(CHOOSE x \in S : \A y \in S : y <= x)

\* C24: calculate_q returns the largest q in 0..floor(k/2) with
\* t_2q > floor((t_0+2)/2) + floor((z_q+2)/2) and none exactly when there is no
\* such q (0 is a value, not none); calculate_p does the same with t_2p+1 and
\* y_p and returns none when there are fewer than two subtrees; every read of
\* ord is inside it.
IndexIsLargestValidOrNone ==
  /\ fn.op = "calculate_q" => fn.res = LargestOrNone(ValidQ(fn.n, fn.ord))
  /\ fn.op = "calculate_p" =>
        /\ fn.res = (IF Len(fn.ord) < 2 THEN NoValue
                     ELSE LargestOrNone(ValidP(fn.n, fn.ord)))
  /\ fn.op # "none" => (fn.res.has => 2 * fn.res.val <= Len(fn.ord) - 1)

\* calculate_q stepped down from floor(k/2) >= 1 and returned the index 0
IndexIsLargestValidOrNone_Witness ==
  /\ fn.op = "calculate_q" /\ Len(fn.ord) >= 3
  /\ fn.res = Some(0) /\ fn.res # NoValue

\* ------------------------------------------------------------------------
\* calculate_mla called with each anchor tag on each vertex of a tree
\* ------------------------------------------------------------------------
\* the trees handed to calculate_mla
MlaTrees == {h \in Inputs : IsTreeInput(h)}

\* fn: the tree t and the arguments of the call, and the tree it leaves
InitMla ==
  /\ \E h \in MlaTrees :
        \E root \in {NO_ANCHOR, LEFT_ANCHOR, RIGHT_ANCHOR} :
           \E one_node \in 1..Len(h) :
              fn = [t |-> free_tree_of(h), root |-> root, one_node |-> one_node,
                    op |-> "none", after |-> free_tree_of(h)]
  /\ tree = Unused /\ build = Unused /\ result = Unused /\ graph = Unused
  /\ last = Unused /\ du = Unused /\ lens = Unused /\ gen = Unused
  /\ ulab = Unused /\ bfs = Unused /\ reader = Unused /\ samp = Unused
  /\ svec = Unused /\ sorter = Unused /\ rdt = Unused

\* calculate_mla<root, make_arrangement>(t, one_node, 0, n - 1, mla, cost)
CallCalculateMla ==
  /\ fn.op = "none"
  /\ \E make_arrangement \in BOOLEAN :
        fn' = [fn EXCEPT
                 !.op = "calculate_mla",
                 !.after = calculate_mla(fn.root, make_arrangement, fn.t,
                              fn.one_node, 0, fn.t.n - 1,
                              linear_arrangement(IF make_arrangement
                                                 THEN fn.t.n ELSE 0)).t]
  /\ UNCHANGED <<solver_and_graph_vars, du, lens, gen, ulab, bfs, reader,
                 samp, svec, sorter, rdt>>

NextMla == CallCalculateMla

SpecMla == InitMla /\ [][NextMla]_vars

\* C25: calculate_mla, with any anchor tag and through any branch, leaves the
\* working tree with the edges it had on entry: every vertex has the same
\* neighbours, each as many times as before.
MlaRestoresTheEdges ==
  fn.op = "calculate_mla" =>
     /\ fn.after.n = fn.t.n
     /\ \A u \in Nodes(fn.t) :
          SortInc(At(fn.after.adj, u)) = SortInc(At(fn.t.adj, u))

\* the call on the two joined spiders returned: no q exists at the centroidal
\* vertex 1, the edge to the other centre is detached, and the anchored call
\* on the spider that is left has a p and enumerates the P_i
MlaRestoresTheEdges_Witness ==
  /\ fn.op = "calculate_mla" /\ fn.root = NO_ANCHOR /\ fn.t.n = 42
  /\ retrieve_centroid(fn.t, fn.one_node - 1) + 1 = 1
  /\ ~calculate_q(42, get_ordering(fn.t, 1)).has
  /\ calculate_p(21, get_ordering(remove_edge(fn.t, 0, 21, FALSE, FALSE), 1)).has

\* ------------------------------------------------------------------------
\* sorted_vector<T, unique> (a std::vector kept sorted)
\* ------------------------------------------------------------------------
\* the values inserted and removed are 1..MaxValue
MaxValue == 3

\* the largest number of elements the vector is grown to
MaxVecLen == 4

RECURSIVE upper_bound(_, _, _, _)
\* std::upper_bound(begin, end, x) by bisection of the len elements from
\* first (an index from 0): the index of the first element greater than x
upper_bound(v, x, first, len) ==
  IF len <= 0 THEN first
  ELSE LET half == len \div 2
       IN IF ~(x < At(v, first + half))
          THEN upper_bound(v, x, first + half + 1, len - half - 1)
          ELSE upper_bound(v, x, first, half)

RECURSIVE lower_bound(_, _, _, _)
\* std::lower_bound(begin, end, x): the index of the first element not less
\* than x
lower_bound(v, x, first, len) ==
  IF len <= 0 THEN first
  ELSE LET half == len \div 2
       IN IF At(v, first + half) < x
          THEN lower_bound(v, x, first + half + 1, len - half - 1)
          ELSE lower_bound(v, x, first, half)

\* std::vector::insert(it, x), it being the index i
vector_insert(v, i, x) == SubSeq(v, 1, i) \o <<x>> \o SubSeq(v, i + 1, Len(v))

\* std::binary_search(begin, end, x)
contains(v, x) ==
  LET i == lower_bound(v, x, 0, Len(v))
  IN i < Len(v) /\ ~(x < At(v, i))

\* insert_sorted(x) without the test "*pre_it != x" of unique vectors
insert_sorted_without_test(unique, v, x) ==
  vector_insert(v, upper_bound(v, x, 0, Len(v)), x)

\* insert_sorted(x): the elements afterwards
insert_sorted(unique, v, x) ==
  IF ~unique THEN vector_insert(v, upper_bound(v, x, 0, Len(v)), x)
  ELSE IF Len(v) = 0 THEN <<x>>
  ELSE LET it == upper_bound(v, x, 0, Len(v))
           pre_it == IF it = 0 THEN it ELSE it - 1
       IN IF At(v, pre_it) # x THEN vector_insert(v, it, x) ELSE v

\* what is found in the vector after erase(end()), a call outside the
\* contract of std::vector, when the process goes on: the elements with the
\* last one dropped, or, the size having wrapped around, whatever lies in
\* memory
AfterEraseAtEnd(v) ==
  IF Len(v) > 0 THEN {SubSeq(v, 1, Len(v) - 1)}
  ELSE {<<a, b>> : a \in 1..MaxValue, b \in 1..MaxValue}

\* remove_sorted(x) on the vector c = [v, unique, build, status, op, absent]:
\* the possible outcomes. The assertion is compiled in debug builds only.
\* absent records that some remove_sorted was called with a value not stored.
remove_sorted(c, x) ==
  LET d == [c EXCEPT !.op = "remove_sorted",
                     !.absent = @ \/ ~contains(c.v, x)]
  IN IF c.build = "debug" /\ ~contains(c.v, x)
     THEN {[d EXCEPT !.status = "assert"]}
     ELSE LET i1 == lower_bound(c.v, x, 0, Len(c.v))
          IN IF i1 < Len(c.v)
             THEN {[d EXCEPT !.v = RemoveAt(c.v, i1 + 1)]}
             ELSE {[d EXCEPT !.status = "crash"]}
                  \cup {[d EXCEPT !.v = w, !.status = "undefined"] :
                          w \in AfterEraseAtEnd(c.v)}

\* svec: an empty sorted_vector<T, unique> of a debug or a release build
InitVec ==
  /\ \E unique \in BOOLEAN, b \in Builds :
        svec = [v |-> <<>>, unique |-> unique, build |-> b, status |-> "ok",
                op |-> "sorted_vector", absent |-> FALSE]
  /\ tree = Unused /\ build = Unused /\ result = Unused /\ graph = Unused
  /\ last = Unused /\ du = Unused /\ lens = Unused /\ gen = Unused
  /\ ulab = Unused /\ bfs = Unused /\ reader = Unused /\ samp = Unused
  /\ sorter = Unused /\ rdt = Unused /\ fn = Unused

VecInsertSorted ==
  /\ svec.status = "ok" /\ Len(svec.v) < MaxVecLen
  /\ \E x \in 1..MaxValue :
        svec' = [svec EXCEPT !.v = insert_sorted(svec.unique, svec.v, x),
                             !.op = "insert_sorted"]
  /\ UNCHANGED <<solver_and_graph_vars, du, lens, gen, ulab, bfs, reader,
                 samp, sorter, rdt, fn>>

VecRemoveSorted ==
  /\ svec.status = "ok"
  /\ \E x \in 1..MaxValue : svec' \in remove_sorted(svec, x)
  /\ UNCHANGED <<solver_and_graph_vars, du, lens, gen, ulab, bfs, reader,
                 samp, sorter, rdt, fn>>

NextVec == VecInsertSorted \/ VecRemoveSorted

SpecVec == InitVec /\ [][NextVec]_vars

\* the elements of c are in non-decreasing order and, when unique is true,
\* pairwise different
SortedAndUnique(c) ==
  /\ IsSortedSeq(c.v)
  /\ c.unique => \A i, j \in 1..Len(c.v) : i # j => c.v[i] # c.v[j]

InsertionSortMaxSize == 14

\* the largest size sorted by std::sort
StdSortMaxSize == 30

\* the longest range handed to sort_1_n_inc
MaxSortLen == 32

\* ranges of at most MaxShortLen distinct values of 0..MaxShortValue are
\* handed over in every order
MaxShortLen == 3

MaxShortValue == 4

\* std::swap(*j, *nj), j and nj being indices from 0
swap(v, j, nj) == [v EXCEPT ![j + 1] = v[nj + 1], ![nj + 1] = v[j + 1]]

RECURSIVE insertion_sort_while(_)
\* the while of insertion_sort on jv = <<j, v>>, nj being j + 1: swap and step
\* down while *j > *nj and j != begin
insertion_sort_while(jv) ==
  IF At(jv[2], jv[1]) > At(jv[2], jv[1] + 1) /\ jv[1] # 0
  THEN insertion_sort_while(<<jv[1] - 1, swap(jv[2], jv[1], jv[1] + 1)>>)
  ELSE jv

\* the body of the for of insertion_sort without the "if" after the while
insertion_sort_step_without_if(v, i) == insertion_sort_while(<<i - 1, v>>)[2]

\* the body of the for of insertion_sort for the index i: the while, then
\* "if (*j > *nj) swap"
insertion_sort_step(v, i) ==
  LET jv == insertion_sort_while(<<i - 1, v>>)
  IN IF At(jv[2], jv[1]) > At(jv[2], jv[1] + 1)
     THEN swap(jv[2], jv[1], jv[1] + 1)
     ELSE jv[2]

RECURSIVE insertion_sort_for(_)
\* the for of insertion_sort on iv = <<i, v>>
insertion_sort_for(iv) ==
  IF iv[1] # Len(iv[2])
  THEN insertion_sort_for(<<iv[1] + 1, insertion_sort_step(iv[2], iv[1])>>)
  ELSE iv[2]

\* insertion_sort(begin, end) on a range of at least one element
insertion_sort(v) == insertion_sort_for(<<1, v>>)

RECURSIVE minmax_element(_, _)
\* std::minmax_element on st = <<i, m, M>>: m and M are the least and the
\* greatest of v[1..i-1]; <<m, M>> of the whole range
minmax_element(v, st) ==
  IF st[1] > Len(v) THEN <<st[2], st[3]>>
  ELSE minmax_element(v,
         <<st[1] + 1,
           IF v[st[1]] < st[2] THEN v[st[1]] ELSE st[2],
           IF v[st[1]] >= st[3] THEN v[st[1]] ELSE st[3]>>)

RECURSIVE fill_seen(_, _, _)
\* seen[*it - m] = true on st = <<i, seen>>, for it from the i-th element
\* (from 1) on
fill_seen(st, v, m) ==
  IF st[1] > Len(v) THEN st[2]
  ELSE fill_seen(<<st[1] + 1, Put(st[2], v[st[1]] - m, TRUE)>>, v, m)

RECURSIVE write_seen(_, _, _)
\* the last for of sort_1_n_inc on st = <<i, vit, v>>: i + m is written at
\* vit, and vit moves on when i + m was seen
write_seen(st, seen, m) ==
  IF st[1] < Len(seen) /\ st[2] # Len(st[3])
  THEN write_seen(<<st[1] + 1,
                    st[2] + (IF At(seen, st[1]) THEN 1 ELSE 0),
                    Put(st[3], st[2], st[1] + m)>>, seen, m)
  ELSE st[3]

\* the bit-vector part of sort_1_n_inc, mM being <<m, M>>
bit_sort_with(v, mM) ==
  write_seen(<<0, 0, v>>,
             fill_seen(<<1, Repeat(FALSE, mM[2] - mM[1] + 1)>>, v, mM[1]), mM[1])

\* sort_1_n_inc(begin, end): the range afterwards
sort_1_n_inc(v) ==
  IF Len(v) <= 1 THEN v
  ELSE IF Len(v) <= InsertionSortMaxSize THEN insertion_sort(v)
  ELSE IF Len(v) <= StdSortMaxSize THEN SortInc(v)
  ELSE bit_sort_with(v, minmax_element(v, <<2, v[1], v[1]>>))

\* the values lo..lo+len other than lo+g, in ascending order
AscendingWithGap(lo, len, g) ==
  [i \in 1..len |-> IF i - 1 < g THEN lo + i - 1 ELSE lo + i]

\* s in reverse order
Reversed(s) == [i \in 1..Len(s) |-> s[Len(s) + 1 - i]]

\* s rotated to the left by r
Rotated(s, r) == [i \in 1..Len(s) |-> s[((i - 1 + r) % Len(s)) + 1]]

\* the elements at the odd places of s in reverse order, then those at the
\* even places
OddsDownEvensUp(s) ==
  LET h == (Len(s) + 1) \div 2
  IN [i \in 1..Len(s) |-> IF i <= h THEN s[2 * (h - i) + 1] ELSE s[2 * (i - h)]]

\* the long ranges handed to sort_1_n_inc: around each threshold, distinct
\* values with one gap, in five orders
LongRanges ==
  UNION {
    UNION {{a, Reversed(a), Rotated(a, 1), Rotated(a, len \div 2), OddsDownEvensUp(a)} :
             a \in {AscendingWithGap(lo, len, g) : lo \in 0..1, g \in 0..len}} :
      len \in {InsertionSortMaxSize, InsertionSortMaxSize + 1, StdSortMaxSize}
               \cup ((StdSortMaxSize + 1)..MaxSortLen)}

\* the short ranges: every arrangement of every set of at most MaxShortLen
\* values
ShortRanges ==
  UNION {Permutations(S) : S \in {T \in SUBSET (0..MaxShortValue) :
                                    Cardinality(T) <= MaxShortLen}}

\* sorter: the range before the call, the range after it and the call made
InitSort ==
  /\ \E v \in ShortRanges \cup LongRanges :
        sorter = [before |-> v, v |-> v, op |-> "none"]
  /\ tree = Unused /\ build = Unused /\ result = Unused /\ graph = Unused
  /\ last = Unused /\ du = Unused /\ lens = Unused /\ gen = Unused
  /\ ulab = Unused /\ bfs = Unused /\ reader = Unused /\ samp = Unused
  /\ svec = Unused /\ rdt = Unused /\ fn = Unused

CallSort1NInc ==
  /\ sorter.op = "none"
  /\ sorter' = [sorter EXCEPT !.v = sort_1_n_inc(sorter.v), !.op = "sort_1_n_inc"]
  /\ UNCHANGED <<solver_and_graph_vars, du, lens, gen, ulab, bfs, reader,
                 samp, svec, rdt, fn>>

NextSort == CallSort1NInc

SpecSort == InitSort /\ [][NextSort]_vars

\* C28: on a range of pairwise distinct integers of any length (insertion
\* sort up to 14 elements, std::sort up to 30, the bit vector above)
\* sort_1_n_inc leaves the range strictly increasing and holding exactly the
\* values it held before.
SortedStrictlyWithSameValues ==
  sorter.op = "sort_1_n_inc" =>
     /\ Len(sorter.v) = Len(sorter.before)
     /\ \A i \in 1..(Len(sorter.v) - 1) : sorter.v[i] < sorter.v[i + 1]
     /\ SeqToSet(sorter.v) = SeqToSet(sorter.before)

\* a range of more than 30 values that starts above 0, has a gap and was not
\* in order went through the bit vector
SortedStrictlyWithSameValues_Witness ==
  /\ sorter.op = "sort_1_n_inc" /\ Len(sorter.before) > StdSortMaxSize
  /\ sorter.before # sorter.v
  /\ sorter.v[1] = 1 /\ sorter.v[Len(sorter.v)] = Len(sorter.v) + 1

\* ------------------------------------------------------------------------
\* pos_in_interval on the interval of a vertex
\* ------------------------------------------------------------------------
\* the largest interval size handed to pos_in_interval
MaxIntervalSize == 40

\* fn: the arguments of the call, the function called and the value returned
InitInterval ==
  /\ \E int_size \in 1..MaxIntervalSize :
        \E P \in {LEFT_PLACE, RIGHT_PLACE, ROOT_PLACE} :
           fn = [int_size |-> int_size, P |-> P, op |-> "none", res |-> 0]
  /\ tree = Unused /\ build = Unused /\ result = Unused /\ graph = Unused
  /\ last = Unused /\ du = Unused /\ lens = Unused /\ gen = Unused
  /\ ulab = Unused /\ bfs = Unused /\ reader = Unused /\ samp = Unused
  /\ svec = Unused /\ sorter = Unused /\ rdt = Unused

CallPosInInterval ==
  /\ fn.op = "none"
  /\ fn' = [fn EXCEPT !.op = "pos_in_interval",
                       !.res = pos_in_interval(fn.int_size, fn.P)]
  /\ UNCHANGED <<solver_and_graph_vars, du, lens, gen, ulab, bfs, reader,
                 samp, svec, sorter, rdt>>

NextInterval == CallPosInInterval

SpecInterval == InitInterval /\ [][NextInterval]_vars

\* the number h with size = 2 * h (even size) or size = 2 * h + 1 (odd size)
HalfOf(size) == CHOOSE h \in 0..size : size = 2 * h \/ size = 2 * h + 1

\* C29: for an interval of size >= 3, pos_in_interval(size, LEFT_PLACE) is
\* size/2 when size is even and (size-1)/2 when it is odd, and
\* pos_in_interval(size, RIGHT_PLACE) is size - 1 minus that position; for
\* size 1 the position is 0 whatever the place.
PositionInIntervalIsAsStated ==
  fn.op = "pos_in_interval" =>
     /\ fn.int_size = 1 => fn.res = 0
     /\ (fn.int_size >= 3 /\ fn.P = LEFT_PLACE) => fn.res = HalfOf(fn.int_size)
     /\ (fn.int_size >= 3 /\ fn.P = RIGHT_PLACE) =>
           fn.res = fn.int_size - 1 - HalfOf(fn.int_size)

\* pos_in_interval(4, RIGHT_PLACE) returned 1, the mirror of position 2
PositionInIntervalIsAsStated_Witness ==
  /\ fn.op = "pos_in_interval" /\ fn.int_size = 4 /\ fn.P = RIGHT_PLACE
  /\ fn.res = 1

\* ------------------------------------------------------------------------
\* rdtree: init_rooted, get_root, is_root
\* ------------------------------------------------------------------------
\* the largest number of vertices of the undirected tree handed to init_rooted
MaxRdNodes == 4

\* the call of m_proc_neigh recorded as e
is_proc_neigh(e) == e.ev = "proc_neigh"

\* the list dir_edges of init_rooted(g, r): one pair (s, t) for every call of
\* the process-neighbour callback in the traversal of g started at r
dir_edges_of(g, r) ==
  LET b == start_at(bfs_init("BFS", [kind |-> "ugraph", n |-> g.n,
                                     out |-> g.adj, in |-> g.adj]), r)
      calls == SelectSeq(b.log, is_proc_neigh)
  IN [i \in 1..Len(calls) |-> <<calls[i].s, calls[i].t>>]

\* dgraph::add_edges on a graph of n vertices without edges: the lists of
\* out-neighbours and the in-degrees m_in_degree
dgraph_of(n, edges) ==
  [n |-> n,
   out |-> [u \in 1..n |->
              SelectSeq([i \in 1..Len(edges) |-> edges[i][2]],
                        LAMBDA t : \E i \in 1..Len(edges) : edges[i] = <<u - 1, t>>)],
   m_in_degree |-> [u \in 1..n |->
                      Cardinality({i \in 1..Len(edges) : edges[i][2] = u - 1})]]

\* rdtree::init_rooted(g, r) on an undirected tree g with at least one vertex
rdtree_init_rooted(g, r) ==
  [G |-> dgraph_of(g.n, dir_edges_of(g, r)), m_r |-> r]

\* rdtree::get_root()
rdtree_get_root(T) == T.m_r

\* rdtree::is_root(r): m_in_degree[r] converted to bool
rdtree_is_root(T, r) == At(T.G.m_in_degree, r) # 0

\* rdt: the undirected tree g and the vertex r, the rooted tree T built from
\* them, the last call, and the vertex asked for and the answer of is_root
InitRd ==
  /\ \E n \in 1..MaxRdNodes :
        \E h \in {x \in HeadArrays(n) : IsTreeInput(x)} :
           \E r \in 0..(n - 1) :
              rdt = [g |-> free_tree_of(h), r |-> r,
                     T |-> [G |-> dgraph_of(0, <<>>), m_r |-> 0],
                     op |-> "rdtree", asked |-> 0, res |-> FALSE]
  /\ tree = Unused /\ build = Unused /\ result = Unused /\ graph = Unused
  /\ last = Unused /\ du = Unused /\ lens = Unused /\ gen = Unused
  /\ ulab = Unused /\ bfs = Unused /\ reader = Unused /\ samp = Unused
  /\ svec = Unused /\ sorter = Unused /\ fn = Unused

RdInitRooted ==
  /\ rdt.op = "rdtree"
  /\ rdt' = [rdt EXCEPT !.T = rdtree_init_rooted(rdt.g, rdt.r),
                         !.op = "init_rooted"]
  /\ UNCHANGED <<solver_and_graph_vars, du, lens, gen, ulab, bfs, reader,
                 samp, svec, sorter, fn>>

RdIsRoot ==
  /\ rdt.op # "rdtree"
  /\ \E v \in 0..(rdt.T.G.n - 1) :
        rdt' = [rdt EXCEPT !.op = "is_root", !.asked = v,
                           !.res = rdtree_is_root(rdt.T, v)]
  /\ UNCHANGED <<solver_and_graph_vars, du, lens, gen, ulab, bfs, reader,
                 samp, svec, sorter, fn>>

NextRd == RdInitRooted \/ RdIsRoot

SpecRd == InitRd /\ [][NextRd]_vars

\* C30: on the rooted tree built by init_rooted(g, r) from an undirected tree
\* g, is_root(v) is true exactly when v is the root r that get_root() returns.
IsRootExactlyAtTheRoot ==
  rdt.op = "is_root" =>
     /\ rdtree_get_root(rdt.T) = rdt.r
     /\ rdt.res <=> (rdt.asked = rdtree_get_root(rdt.T))

====
